---- MODULE Spec2Model ----
(***************************************************************************)
(* Verification model of reffect-motion-creator: the shared numeric        *)
(* utilities, the six effect modules (static generate, animated            *)
(* init/drawFrame) and the standalone HTML export.                         *)
(*                                                                         *)
(* Numbers.  A JavaScript number is modelled as an exact rational <<n, d>> *)
(* (d > 0, lowest terms); 0/0 is NaN and a thrown TypeError is a value of  *)
(* its own.  IEEE-754 rounding is not modelled: properties are settled in  *)
(* real arithmetic.  32-bit integer operations (|0, >>>, ^, Math.imul)     *)
(* keep their width.  Math.sin and Math.pow are tabulated (MathSin, Pow18).*)
(***************************************************************************)
EXTENDS Integers, Sequences, FiniteSets, TLC

VARIABLES
  rngSeed,   \* the seed the generators were built from (halves of its 32 bits)
  gen,       \* generator name -> the closure's variable s
  seq,       \* generator name -> the values returned so far (numerators)
  bilGrid,   \* the field handed to sampleBilinear
  bilCall,   \* the last call: [kind, c, r, u, v] ("none" before any call)
  bilOut,    \* what that call returned
  fxData,    \* sampleData: [grid, cols, rows, aspect]
  fxSize,    \* <<outputWidth, outputHeight>>
  fxEffect,  \* the effect the caller works with
  fxParams,  \* the params object the caller passes (a partial record)
  fxSvg,     \* [params, out]: the last generate call and what it returned, or NoValue
  fxAnim,    \* the AnimationState init returned for the current inputs, or NoValue
  fxFrame,   \* [t, draws]: the canvas calls of the last drawFrame, or NoValue
  fxRng,     \* the variable s of the mulberry32 closure made by the latest call
  art,       \* the exported standalone page: [pc, effect, params, size, animState, frames, error]
  smp,       \* the sampleSVG call: [pc, src, targetCols, dims, cols, rows, out]
  cvs,       \* AnimatedCanvas: its refs, the props its callbacks closed over, the last frame
  drv,       \* useAnimationLoop: startRef, onFrameRef and the calls made since mount
  job,       \* the raster export in progress or last ended, with the panel's progress marker
  run,       \* a particle loop in progress: [mode, sd, params, size, i, s, out], or NoValue
  app        \* App: svgSource, sampleData and the sampleSVG promises in flight


(***************************************************************************)
(* Bounds                                                                  *)
(***************************************************************************)
MaxDraws == 3
MaxBilCols == 3
MaxBilRows == 2
BilSteps == 4
MaxPatterns == 4
MaxFxGrids == 3
MaxDots == 3
MaxTicks == 1
MaxFrames == 2
\* segments per halftone row (stepsPerLine, 300 in the source)
StepsPerLine == 4
MaxTargetCols == 3
MaxRenderings == 3
MaxStamps == 3
MaxCalls == 3
MaxChanges == 1
MaxCallbacks == 2
\* milliseconds between the animation frames the model delivers
FrameMs == 500
MaxGifFrames == 3
MaxJobFrames == 2
\* side of the all-white field; turns of the particle loop followed per call
FieldSide == 10
MaxTurns == 12
\* distinct SVG texts (1 is the default logo) and upload or clear events of a session
MaxSources == 3
MaxUploads == 3
MaxTable == 4
\* seconds a video export records (VIDEO_SECS, 10 in the source)
VideoSecs == 1

(***************************************************************************)
(* Rational arithmetic                                                     *)
(***************************************************************************)
NaN == <<0, 0>>
TypeErr == <<1, 0>>

IsNum(a) == a[2] # 0

Abs(x) == IF x < 0 THEN -x ELSE x

RECURSIVE GCD(_, _)
GCD(a, b) == IF b = 0 THEN a ELSE GCD(b, a % b)

\* n/d in lowest terms with a positive denominator, g the gcd of |n| and |d|
Reduced(n, d, g) == IF d < 0 THEN <<(-n) \div g, (-d) \div g>> ELSE <<n \div g, d \div g>>
Norm(n, d) == Reduced(n, d, GCD(Abs(n), Abs(d)))

Q(n, d) == Norm(n, d)
I(n) == <<n, 1>>

\* the result of an arithmetic operator one of whose operands is no number
Bad(a, b) == IF a = TypeErr \/ b = TypeErr THEN TypeErr ELSE NaN

\* sums over the least common denominator (g the gcd of the denominators),
\* products cross-reduced first (g1, g2 the gcds across the fraction bars)
SumOver(a, b, g) == Norm(a[1] * (b[2] \div g) + b[1] * (a[2] \div g), (a[2] \div g) * b[2])
DiffOver(a, b, g) == Norm(a[1] * (b[2] \div g) - b[1] * (a[2] \div g), (a[2] \div g) * b[2])
ProductOver(a, b, g1, g2) ==
  <<(a[1] \div g1) * (b[1] \div g2), (a[2] \div g2) * (b[2] \div g1)>>
LessOver(a, b, g) == a[1] * (b[2] \div g) < b[1] * (a[2] \div g)

Add(a, b) == IF IsNum(a) /\ IsNum(b) THEN SumOver(a, b, GCD(a[2], b[2])) ELSE Bad(a, b)
Sub(a, b) == IF IsNum(a) /\ IsNum(b) THEN DiffOver(a, b, GCD(a[2], b[2])) ELSE Bad(a, b)
Mul(a, b) == IF IsNum(a) /\ IsNum(b)
             THEN ProductOver(a, b, GCD(Abs(a[1]), b[2]), GCD(Abs(b[1]), a[2]))
             ELSE Bad(a, b)
\* JavaScript division: 0/0 is NaN (x/0 with x # 0 is not used by the model)
Div(a, b) == IF IsNum(a) /\ IsNum(b)
             THEN (IF b[1] = 0 THEN NaN ELSE Norm(a[1] * b[2], a[2] * b[1]))
             ELSE Bad(a, b)

\* comparisons: false when an operand is no number, as in JavaScript
Lt(a, b) == IsNum(a) /\ IsNum(b) /\ LessOver(a, b, GCD(a[2], b[2]))
Le(a, b) == IsNum(a) /\ IsNum(b) /\ ~LessOver(b, a, GCD(a[2], b[2]))

MathMin(a, b) == IF IsNum(a) /\ IsNum(b) THEN (IF Lt(b, a) THEN b ELSE a) ELSE Bad(a, b)
MathMax(a, b) == IF IsNum(a) /\ IsNum(b) THEN (IF Lt(a, b) THEN b ELSE a) ELSE Bad(a, b)
MathFloor(a) == IF IsNum(a) THEN <<a[1] \div a[2], 1>> ELSE a
\* Math.round: floor(x + 0.5)
MathRound(a) == MathFloor(Add(a, Q(1, 2)))

\* round(rem / d * 10^k) for 0 <= rem < d, digit by digit
RECURSIVE FixedDigits(_, _, _)
FixedDigits(rem, d, k) ==
  IF k = 0 THEN (IF 2 * rem >= d THEN 1 ELSE 0)
  ELSE ((rem * 10) \div d) * (10 ^ (k - 1)) + FixedDigits((rem * 10) % d, d, k - 1)

\* Number.prototype.toFixed(k): the nearest multiple of 10^-k (half away from 0)
ToFixed(a, k) ==
  IF IsNum(a)
  THEN Norm((IF a[1] < 0 THEN -1 ELSE 1)
              * ((Abs(a[1]) \div a[2]) * (10 ^ k) + FixedDigits(Abs(a[1]) % a[2], a[2], k)),
            10 ^ k)
  ELSE a

(***************************************************************************)
(* engine/utils/math.js                                                    *)
(***************************************************************************)
lerp(a, b, t) == Add(a, Mul(Sub(b, a), t))

clamp(val, min, max) == MathMin(MathMax(val, min), max)

\* ---- 32-bit integer operations of JavaScript -------------------------
W16 == 2 ^ 16
W15 == 2 ^ 15
W8  == 2 ^ 8

\* an int32 as its two unsigned 16-bit halves <<hi, lo>>, and back
Bits(x) == <<(x \div W16) % W16, x % W16>>
Int32(p) == IF p[1] >= W15 THEN (p[1] - W16) * W16 + p[2] ELSE p[1] * W16 + p[2]

RECURSIVE Xor16(_, _, _)
Xor16(a, b, n) ==
  IF n = 0 THEN 0 ELSE ((a + b) % 2) + 2 * Xor16(a \div 2, b \div 2, n - 1)

RECURSIVE Or16(_, _, _)
Or16(a, b, n) ==
  IF n = 0 THEN 0
  ELSE (IF a % 2 = 1 \/ b % 2 = 1 THEN 1 ELSE 0) + 2 * Or16(a \div 2, b \div 2, n - 1)

\* x * y mod 2^16 for 16-bit x, y, without leaving 31 bits
MulMod16(x, y) ==
  (((((x \div W8) * (y % W8) + (x % W8) * (y \div W8)) % W8) * W8) + (x % W8) * (y % W8)) % W16

\* the low 32 bits of the product of two 32-bit words given as halves
MulBits(A, B) ==
  LET a1 == A[2] \div W8
      a0 == A[2] % W8
      b1 == B[2] \div W8
      b0 == B[2] % W8
      low == a0 * b0 + (a1 * b0 + a0 * b1) * W8
      hi == (a1 * b1 + low \div W16 + MulMod16(A[1], B[2]) + MulMod16(A[2], B[1])) % W16
  IN  <<hi, low % W16>>

AddBits(A, B) ==
  LET lo == A[2] + B[2]
  IN  <<(A[1] + B[1] + lo \div W16) % W16, lo % W16>>

\* k in 1..15
ShrBits(A, k) ==
  <<A[1] \div (2 ^ k), (A[1] % (2 ^ k)) * (2 ^ (16 - k)) + A[2] \div (2 ^ k)>>

\* (a + b) | 0 : the exact sum of two int32, wrapped to int32
JsAddToInt32(a, b) == Int32(AddBits(Bits(a), Bits(b)))
\* a ^ b
XorBits(A, B) == <<Xor16(A[1], B[1], 16), Xor16(A[2], B[2], 16)>>
JsXor(a, b) == Int32(XorBits(Bits(a), Bits(b)))
\* a | b
OrBits(A, B) == <<Or16(A[1], B[1], 16), Or16(A[2], B[2], 16)>>
JsOr(a, b) == Int32(OrBits(Bits(a), Bits(b)))
\* a >>> k, k in 1..15: a non-negative number below 2^(32-k)
WordValue(A) == A[1] * W16 + A[2]
JsShrU(a, k) == WordValue(ShrBits(Bits(a), k))
\* a >> k (sign-propagating), k in 1..15
JsShrS(a, k) == a \div (2 ^ k)
\* Math.imul(a, b)
MathImul(a, b) == Int32(MulBits(Bits(a), Bits(b)))
\* a >>> 0 : the uint32 of an int32, as halves <<hi, lo>> (value hi * 2^16 + lo)
JsToUint32(a) == Bits(a)

Golden == 1831565813

\* mulberry32(seed): the closure's variable s after construction; the seed
\* is given as the halves of its low 32 bits (seed | 0)
mulberry32(seed) == Int32(seed)

\* one call of the closure: the new s and the numerator of the returned
\* value (result = (hi * 2^16 + lo) / 2^32)
\*   let t = Math.imul(s ^ (s >>> 15), s | 1)
Mulberry32Mix_signedShift(s1) == MathImul(JsXor(s1, JsShrS(s1, 15)), JsOr(s1, 1))
Mulberry32Mix(s1) == MathImul(JsXor(s1, JsShrU(s1, 15)), JsOr(s1, 1))
\*   t ^= t + Math.imul(t ^ (t >>> 7), t | 61)
Mulberry32Fold(t1) ==
  JsXor(t1, JsAddToInt32(t1, MathImul(JsXor(t1, JsShrU(t1, 7)), JsOr(t1, 61))))
\*   return ((t ^ (t >>> 14)) >>> 0) / 4294967296
Mulberry32Out(t2) == JsToUint32(JsXor(t2, JsShrU(t2, 14)))
Mulberry32Step(s1) == [s |-> s1, out |-> Mulberry32Out(Mulberry32Fold(Mulberry32Mix(s1)))]
\*   s = (s + 0x6d2b79f5) | 0
Mulberry32Call(s) == Mulberry32Step(JsAddToInt32(s, Golden))

\* the copy of mulberry32 inlined into the standalone export (MATH_UTILS_SRC)
mulberry32_inlined(seed) == Int32(seed)

Mulberry32InlinedMix(s1) == MathImul(JsXor(s1, JsShrU(s1, 15)), JsOr(s1, 1))
Mulberry32InlinedFold(t1) ==
  JsXor(t1, JsAddToInt32(t1, MathImul(JsXor(t1, JsShrU(t1, 7)), JsOr(t1, 61))))
Mulberry32InlinedOut(t2) == JsToUint32(JsXor(t2, JsShrU(t2, 14)))
Mulberry32InlinedStep(s1) ==
  [s |-> s1, out |-> Mulberry32InlinedOut(Mulberry32InlinedFold(Mulberry32InlinedMix(s1)))]
Mulberry32InlinedCall(s) == Mulberry32InlinedStep(JsAddToInt32(s, Golden))

\* sampleBilinear: the +1 neighbour index, clamped at the last column/row
NeighbourUnclamped(i0, n) == Add(i0, I(1))
NeighbourWrapped(i0, n) == IF Lt(Add(i0, I(1)), I(n)) THEN Add(i0, I(1)) ELSE I(0)
Neighbour(i0, n) == MathMin(Add(i0, I(1)), I(n - 1))

\* grid[y][x] on a JavaScript array of rows: a missing row makes the second
\* index throw, a missing cell is undefined (NaN in arithmetic)
GridRead(grid, y, x) ==
  IF ~(IsNum(y) /\ y[2] = 1 /\ y[1] \in 0..(Len(grid) - 1)) THEN TypeErr
  ELSE IF ~(IsNum(x) /\ x[2] = 1 /\ x[1] \in 0..(Len(grid[y[1] + 1]) - 1)) THEN NaN
  ELSE grid[y[1] + 1][x[1] + 1]

\* the four cells sampleBilinear reads: [x0, x1, y0, y1]
CellsAround(cols, rows, x0, y0) ==
  [x0 |-> x0, x1 |-> Neighbour(x0, cols), y0 |-> y0, y1 |-> Neighbour(y0, rows)]
BilinearCells(cols, rows, u, v) ==
  CellsAround(cols, rows, MathFloor(Mul(u, I(cols - 1))), MathFloor(Mul(v, I(rows - 1))))

\* the weighted sum of the four cells k for the fractions fx, fy
Blend(grid, k, fx, fy) ==
  Add(Add(Add(Mul(Mul(GridRead(grid, k.y0, k.x0), Sub(I(1), fx)), Sub(I(1), fy)),
              Mul(Mul(GridRead(grid, k.y0, k.x1), fx), Sub(I(1), fy))),
          Mul(Mul(GridRead(grid, k.y1, k.x0), Sub(I(1), fx)), fy)),
      Mul(Mul(GridRead(grid, k.y1, k.x1), fx), fy))
BlendAt(grid, k, x, y) == Blend(grid, k, Sub(x, k.x0), Sub(y, k.y0))

sampleBilinear(grid, cols, rows, u, v) ==
  BlendAt(grid, BilinearCells(cols, rows, u, v), Mul(u, I(cols - 1)), Mul(v, I(rows - 1)))

(***************************************************************************)
(* Math.sin, Math.PI                                                       *)
(***************************************************************************)
MathPI == Q(355, 113)

\* sin at the multiples of pi/6, in tenths
SinTable == <<0, 5, 9, 10, 9, 5, 0, -5, -9, -10, -9, -5>>

\* Math.sin: the angle is reduced modulo 2 pi and rounded down to a multiple
\* of pi/6
MathSin(x) ==
  LET turns == Div(Mul(x, I(Len(SinTable))), Mul(I(2), MathPI))
  IN  Q(SinTable[(MathFloor(turns)[1] % Len(SinTable)) + 1], 10)

(***************************************************************************)
(* Parameter sets                                                          *)
(***************************************************************************)
Null == <<-1, 0>>

\* { ...defaults, ...params }
Merge(defaults, params) ==
  [k \in DOMAIN defaults \cup DOMAIN params |->
     IF k \in DOMAIN params THEN params[k] ELSE defaults[k]]

\* a read of the caller's object with a fallback of its own, not the default
Raw_ownFallback(params, k) == IF k \in DOMAIN params THEN params[k] ELSE I(1)

\* params.key of a possibly partial object (undefined reads as null under ??)
Raw(params, k) == IF k \in DOMAIN params THEN params[k] ELSE Null
\* a ?? b
Coalesce(a, b) == IF a = Null THEN b ELSE a

\* cols > 1 ? c / (cols - 1) : 0.5
LatticeCoord(i, n) == IF n > 1 THEN Div(I(i), I(n - 1)) ELSE Q(1, 2)

Darkness(sd, u, v) == Sub(I(1), sampleBilinear(sd.grid, sd.cols, sd.rows, u, v))

\* the integer value of a count held in a number
AsInt(a) == a[1] \div a[2]

(***************************************************************************)
(* engine/effects/vertical-lines.js                                        *)
(***************************************************************************)
VerticalLinesDefaults ==
  [rows |-> Null, maxLength |-> I(1), minLength |-> Q(5, 100), minStroke |-> Q(1, 2),
   maxStroke |-> I(4), speed |-> Q(3, 2), waveFreq |-> Q(1, 10), color |-> "#000000"]

VerticalLinesGenerate(sd, params, outputWidth, outputHeight) ==
  LET m == Merge(VerticalLinesDefaults, params)
      safeMaxLength == MathMax(m.maxLength, m.minLength)
      cols == sd.cols
      rows == AsInt(Coalesce(Raw(params, "rows"), I(sd.rows)))
      cellW == Div(outputWidth, I(cols))
      cellH == Div(outputHeight, I(rows))
      strokeWidth == Div(Add(m.minStroke, m.maxStroke), I(2))
      Len_(k) == Mul(lerp(m.minLength, safeMaxLength,
                          Darkness(sd, LatticeCoord(k \div rows, cols),
                                       LatticeCoord(k % rows, rows))), cellH)
      Seg(k) ==
        LET cx == Add(Mul(I(k \div rows), cellW), Div(cellW, I(2)))
            cy == Add(Mul(I(k % rows), cellH), Div(cellH, I(2)))
            h == Len_(k)
        IN  [cell |-> <<k % rows, k \div rows>>,
             x1 |-> ToFixed(cx, 1), y1 |-> ToFixed(Sub(cy, Div(h, I(2))), 1),
             x2 |-> ToFixed(cx, 1), y2 |-> ToFixed(Add(cy, Div(h, I(2))), 1)]
      Kept(k) == ~Lt(Len_(k), Q(5, 10))
      cells == SelectSeq([i \in 1..(cols * rows) |-> i - 1], Kept)
  IN  [width |-> outputWidth, height |-> outputHeight, color |-> m.color,
       strokeWidth |-> strokeWidth,
       prims |-> [i \in 1..Len(cells) |-> Seg(cells[i])]]

(***************************************************************************)
(* animate/effects/vertical-lines-anim.js                                  *)
(***************************************************************************)
VerticalLinesAnimDefaults ==
  [rows |-> Null, maxLength |-> I(1), minLength |-> Q(5, 100), minStroke |-> Q(1, 2),
   maxStroke |-> I(4), speed |-> Q(3, 2), waveFreq |-> Q(1, 10), color |-> "#000000"]

VerticalLinesInit(sd, params, outputWidth, outputHeight) ==
  LET merged == Merge(VerticalLinesAnimDefaults, params)
      safeMaxLength == MathMax(merged.maxLength, merged.minLength)
      cols == sd.cols
      rows == AsInt(Coalesce(merged.rows, I(sd.rows)))
      cellW == Div(outputWidth, I(cols))
      cellH == Div(outputHeight, I(rows))
      Len_(c, r) == Mul(lerp(merged.minLength, safeMaxLength,
                             Darkness(sd, LatticeCoord(c, cols), LatticeCoord(r, rows))),
                        cellH)
      Seg(c, r) ==
        LET cy == Add(Mul(I(r), cellH), Div(cellH, I(2)))
        IN  [cell |-> <<r, c>>, a |-> Sub(cy, Div(Len_(c, r), I(2))),
             b |-> Add(cy, Div(Len_(c, r), I(2)))]
      ColSegs(c) ==
        LET Kept(r) == ~Lt(Len_(c, r), Q(3, 10))
            rs == SelectSeq([i \in 1..rows |-> i - 1], Kept)
        IN  [i \in 1..Len(rs) |-> Seg(c, rs[i])]
  IN  [colMeta |-> [i \in 1..cols |->
                      [cx |-> Add(Mul(I(i - 1), cellW), Div(cellW, I(2))),
                       segs |-> ColSegs(i - 1)]],
       cols |-> cols, cellW |-> cellW,
       outputWidth |-> outputWidth, outputHeight |-> outputHeight,
       params |-> merged]

\* the canvas calls of one frame: clearRect, then one stroke per segment
RECURSIVE Flatten(_)
Flatten(ss) == IF ss = <<>> THEN <<>> ELSE Head(ss) \o Flatten(Tail(ss))

VerticalLinesDrawFrame(st, t) ==
  LET p == st.params
      safeMaxStroke == MathMax(p.minStroke, p.maxStroke)
      safeMinStroke == MathMin(p.minStroke, safeMaxStroke)
      maxStrokeByCell == Mul(st.cellW, Q(135, 100))
      effectiveMaxStroke == MathMin(safeMaxStroke, maxStrokeByCell)
      effectiveMinStroke == MathMin(safeMinStroke, effectiveMaxStroke)
      StrokeW(c) ==
        LET wave == Add(Q(1, 2), Mul(Q(1, 2),
                      MathSin(Sub(Mul(t, p.speed), Mul(I(c), p.waveFreq)))))
        IN  lerp(effectiveMinStroke, effectiveMaxStroke, wave)
      ColDraws(c) ==
        LET meta == st.colMeta[c + 1]
        IN  [i \in 1..Len(meta.segs) |->
               [cell |-> meta.segs[i].cell, lineWidth |-> StrokeW(c),
                x1 |-> meta.cx, y1 |-> meta.segs[i].a,
                x2 |-> meta.cx, y2 |-> meta.segs[i].b]]
  IN  [clear |-> <<st.outputWidth, st.outputHeight>>, color |-> p.color,
       prims |-> Flatten([i \in 1..st.cols |-> ColDraws(i - 1)])]

(***************************************************************************)
(* engine/effects/horizontal-lines.js                                      *)
(***************************************************************************)
HorizontalLinesDefaults ==
  [rows |-> Null, maxLength |-> I(1), minLength |-> Q(8, 100), minStroke |-> Q(1, 2),
   maxStroke |-> I(11), speed |-> Q(3, 2), waveFreq |-> Q(2, 10), color |-> "#000000"]

HorizontalLinesGenerate(sd, params, outputWidth, outputHeight) ==
  LET m == Merge(HorizontalLinesDefaults, params)
      safeMinStroke == MathMin(m.minStroke, m.maxStroke)
      safeMaxStroke == MathMax(m.minStroke, m.maxStroke)
      safeMaxLength == MathMax(m.maxLength, m.minLength)
      rows == sd.rows
      cellH == Div(outputHeight, I(rows))
      maxStrokeByCell == Mul(cellH, Q(135, 100))
      effectiveMaxStroke == MathMin(safeMaxStroke, maxStrokeByCell)
      effectiveMinStroke == MathMin(safeMinStroke, effectiveMaxStroke)
      strokeWidth == Div(Add(effectiveMinStroke, effectiveMaxStroke), I(2))
      cols == sd.cols
      cellW == Div(outputWidth, I(cols))
      Len_(k) == Mul(lerp(m.minLength, safeMaxLength,
                          Darkness(sd, LatticeCoord(k % cols, cols),
                                       LatticeCoord(k \div cols, rows))), cellW)
      Seg(k) ==
        LET cy == Add(Mul(I(k \div cols), cellH), Div(cellH, I(2)))
            cx == Add(Mul(I(k % cols), cellW), Div(cellW, I(2)))
            w == Len_(k)
        IN  [cell |-> <<k \div cols, k % cols>>,
             x1 |-> ToFixed(Sub(cx, Div(w, I(2))), 1), y1 |-> ToFixed(cy, 1),
             x2 |-> ToFixed(Add(cx, Div(w, I(2))), 1), y2 |-> ToFixed(cy, 1)]
      Kept(k) == ~Lt(Len_(k), Q(3, 10))
      cells == SelectSeq([i \in 1..(cols * rows) |-> i - 1], Kept)
  IN  [width |-> outputWidth, height |-> outputHeight, color |-> m.color,
       strokeWidth |-> ToFixed(strokeWidth, 1),
       prims |-> [i \in 1..Len(cells) |-> Seg(cells[i])]]

(***************************************************************************)
(* animate/effects/horizontal-lines-anim.js                                *)
(***************************************************************************)
HorizontalLinesAnimDefaults ==
  [rows |-> Null, maxLength |-> I(1), minLength |-> Q(8, 100), minStroke |-> Q(1, 2),
   maxStroke |-> I(6), speed |-> I(4), waveFreq |-> Q(2, 10), color |-> "#000000"]

HorizontalLinesInit(sd, params, outputWidth, outputHeight) ==
  LET merged == Merge(HorizontalLinesAnimDefaults, params)
      safeMaxLength == MathMax(merged.maxLength, merged.minLength)
      rows == AsInt(Coalesce(merged.rows, I(sd.rows)))
      cellH == Div(outputHeight, I(rows))
      cols == sd.cols
      cellW == Div(outputWidth, I(cols))
      Len_(r, c) == Mul(lerp(merged.minLength, safeMaxLength,
                             Darkness(sd, LatticeCoord(c, cols), LatticeCoord(r, rows))),
                        cellW)
      Seg(r, c) ==
        LET cx == Add(Mul(I(c), cellW), Div(cellW, I(2)))
        IN  [cell |-> <<r, c>>, a |-> Sub(cx, Div(Len_(r, c), I(2))),
             b |-> Add(cx, Div(Len_(r, c), I(2)))]
      RowSegs(r) ==
        LET Kept(c) == ~Lt(Len_(r, c), Q(3, 10))
            cs == SelectSeq([i \in 1..cols |-> i - 1], Kept)
        IN  [i \in 1..Len(cs) |-> Seg(r, cs[i])]
  IN  [rowMeta |-> [i \in 1..rows |->
                      [y |-> Add(Mul(I(i - 1), cellH), Div(cellH, I(2))),
                       segs |-> RowSegs(i - 1)]],
       rows |-> rows, cellH |-> cellH,
       outputWidth |-> outputWidth, outputHeight |-> outputHeight,
       params |-> merged]

HorizontalLinesDrawFrame(st, t) ==
  LET p == st.params
      safeMaxStroke == MathMax(p.minStroke, p.maxStroke)
      safeMinStroke == MathMin(p.minStroke, safeMaxStroke)
      maxStrokeByCell == Mul(st.cellH, Q(135, 100))
      effectiveMaxStroke == MathMin(safeMaxStroke, maxStrokeByCell)
      effectiveMinStroke == MathMin(safeMinStroke, effectiveMaxStroke)
      StrokeW(r) ==
        LET wave == Add(Q(1, 2), Mul(Q(1, 2),
                      MathSin(Sub(Mul(t, p.speed), Mul(I(r), p.waveFreq)))))
        IN  lerp(effectiveMinStroke, effectiveMaxStroke, wave)
      RowDraws(r) ==
        LET meta == st.rowMeta[r + 1]
        IN  [i \in 1..Len(meta.segs) |->
               [cell |-> meta.segs[i].cell, lineWidth |-> StrokeW(r),
                x1 |-> meta.segs[i].a, y1 |-> meta.y,
                x2 |-> meta.segs[i].b, y2 |-> meta.y]]
  IN  [clear |-> <<st.outputWidth, st.outputHeight>>, color |-> p.color,
       prims |-> Flatten([i \in 1..st.rows |-> RowDraws(i - 1)])]

(***************************************************************************)
(* engine/effects/ellipse-grid.js                                          *)
(***************************************************************************)
EllipseGridDefaults ==
  [cols |-> I(60), maxRy |-> I(18), eccentricity |-> Q(40, 100), speed |-> I(4),
   pulseFrac |-> Q(1, 2), color |-> "#000000"]

EllipseGridGenerate(sd, params, outputWidth, outputHeight) ==
  LET m == Merge(EllipseGridDefaults, params)
      cols == AsInt(m.cols)
      rows == AsInt(MathMax(I(1), MathRound(Div(m.cols, sd.aspect))))
      cellW == Div(outputWidth, I(cols))
      cellH == Div(outputHeight, I(rows))
      scale == Div(outputHeight, I(1000))
      ryMax == Mul(m.maxRy, scale)
      Ry(k) == lerp(I(0), ryMax, Darkness(sd, LatticeCoord(k % cols, cols),
                                              LatticeCoord(k \div cols, rows)))
      Rx(k) == MathMax(Mul(Ry(k), m.eccentricity), Q(1, 2))
      Kept(k) == ~(Lt(Rx(k), Q(3, 10)) /\ Lt(Ry(k), Q(3, 10)))
      cells == SelectSeq([i \in 1..(cols * rows) |-> i - 1], Kept)
      El(k) ==
        [cell |-> <<k \div cols, k % cols>>,
         cx |-> ToFixed(Add(Mul(I(k % cols), cellW), Div(cellW, I(2))), 2),
         cy |-> ToFixed(Add(Mul(I(k \div cols), cellH), Div(cellH, I(2))), 2),
         rx |-> ToFixed(Rx(k), 2), ry |-> ToFixed(Ry(k), 2)]
  IN  [width |-> outputWidth, height |-> outputHeight, color |-> m.color,
       prims |-> [i \in 1..Len(cells) |-> El(cells[i])]]

(***************************************************************************)
(* animate/effects/ellipse-grid-anim.js                                    *)
(***************************************************************************)
EllipseGridAnimDefaults ==
  [cols |-> I(60), maxRy |-> I(18), eccentricity |-> Q(40, 100), speed |-> I(2),
   pulseFrac |-> Q(1, 2), color |-> "#000000"]

EllipseGridInit(sd, params, outputWidth, outputHeight) ==
  LET merged == Merge(EllipseGridAnimDefaults, params)
      cols == AsInt(merged.cols)
      gridAspect == Div(I(sd.cols), I(sd.rows))
      rows == AsInt(MathMax(I(1), MathRound(Div(merged.cols, gridAspect))))
      cellW == Div(outputWidth, I(cols))
      cellH == Div(outputHeight, I(rows))
      scale == Div(outputHeight, I(1000))
      ryMax == Mul(merged.maxRy, scale)
      waveFreqFixed == Q(35, 100)
      Cell(k) ==
        LET r == k \div cols
            c == k % cols
        IN  [cell |-> <<r, c>>,
             cx |-> Add(Mul(I(c), cellW), Div(cellW, I(2))),
             cy |-> Add(Mul(I(r), cellH), Div(cellH, I(2))),
             baseRy |-> lerp(I(0), ryMax,
                             Darkness(sd, LatticeCoord(c, cols), LatticeCoord(r, rows))),
             phase |-> Mul(I(r + c), waveFreqFixed)]
  IN  [cellData |-> [i \in 1..(cols * rows) |-> Cell(i - 1)],
       cols |-> cols, rows |-> rows,
       outputWidth |-> outputWidth, outputHeight |-> outputHeight,
       params |-> merged]

EllipseGridDrawFrame(st, t) ==
  LET p == st.params
      Ry(i) ==
        LET pulse == Add(Q(1, 2), Mul(Q(1, 2),
                       MathSin(Add(Mul(t, p.speed), st.cellData[i].phase))))
        IN  lerp(Mul(st.cellData[i].baseRy, Sub(I(1), p.pulseFrac)),
                 st.cellData[i].baseRy, pulse)
      Rx(i) == MathMax(Mul(Ry(i), p.eccentricity), Q(1, 2))
      Kept(i) == ~Lt(Ry(i), Q(1, 2))
      drawn == SelectSeq([i \in 1..(st.cols * st.rows) |-> i], Kept)
  IN  [clear |-> <<st.outputWidth, st.outputHeight>>, color |-> p.color,
       prims |-> [j \in 1..Len(drawn) |->
                    [cell |-> st.cellData[drawn[j]].cell,
                     cx |-> st.cellData[drawn[j]].cx, cy |-> st.cellData[drawn[j]].cy,
                     rx |-> Rx(drawn[j]), ry |-> Ry(drawn[j])]]]

(***************************************************************************)
(* engine/effects/star-glint.js                                            *)
(***************************************************************************)
\* frac(Math.sin(n / 10) * 10000) in hundredths (rounded down), n = 0, 1, ...
PseudoRandomTable == <<
   0, 33, 69, 20, 18, 25, 42, 17, 56, 26, 70, 7, 39, 58, 49, 94, 73, 64, 47, 0,
   97, 9, 96, 5, 63, 72, 1, 79, 88, 49, 20, 80, 25, 54, 58, 16, 79, 63, 42, 33,
   97, 22, 24, 34, 97, 69, 8, 76, 35, 47, 75, 85, 45, 32, 35, 59, 33, 14, 97, 23,
   84, 37, 10, 13, 49, 19, 41, 49, 13, 39, 86, 69, 67, 36, 8, 99, 19, 68, 43, 41,
   58, 89, 30, 71, 98, 87, 97, 69, 17, 20, 18, 98, 89, 54, 75, 48, 73, 39, 20, 64,
   78, 29, 25, 14, 73, 4, 24, 64, 63, 63, 9, 47, 22, 80, 71, 47, 71, 16, 74, 62,
   27, 52, 70, 68, 95, 78, 23, 32, 9, 74, 67, 61, 73, 69, 75, 84, 61, 54, 95, 7,
   7, 9, 26, 71, 57, 95, 91, 46, 52, 81, 87, 96, 98, 40, 18, 67, 53, 63, 93, 41,
   96, 28, 78, 47, 93, 14, 47, 58, 32, 75, 2, 34, 99, 25, 40, 73, 55, 17, 97, 42,
   12, 86, 67, 91, 34, 19, 26, 0, 64, 22, 77, 34, 14, 65, 65, 39, 63, 73, 73, 44,
   45, 24, 20, 66, 92, 29, 6, 52, 95, 57, 55, 94, 61, 22, 15, 39, 50, 52, 86, 22,
   48, 63, 63, 35, 44, 25, 74, 37, 5, 1, 79, 12, 90, 11, 84, 17, 24, 14, 1, 98,
   21, 92, 44, 21, 90, 42, 3, 39, 64, 54, 48, 64, 8, 80, 88, 58, 40, 22, 35, 64,
   58, 33, 81, 77, 85, 57, 44, 93, 51, 63, 75, 32, 73, 27, 16, 40, 77, 75, 45, 52,
   5, 52, 65, 36, 64, 44, 60, 72, 10, 62, 66, 0, 78, 40, 45, 68, 94, 12, 18, 4,
   68, 3, 8, 81, 30, 72, 39, 83, 84, 59, 62, 2, 47, 32, 74, 74, 35, 68, 0, 88,
   26, 55, 69, 27, 59, 70, 50, 75, 17, 41, 11, 91, 42, 28, 9, 40, 66, 21, 21, 55,
   82, 23, 51, 82, 68, 87, 31, 0, 88, 75, 17, 37, 16, 82, 3, 81, 42, 33, 13, 50,
   21, 0, 68, 1, 79, 83, 95, 9, 25, 62, 61, 90, 54, 99, 28, 1, 50, 88, 17, 39,
   68, 36, 4, 75, 96, 74, 78, 50, 9, 60, 95, 0, 57, 47, 49, 45, 12, 27, 60, 73,
   13, 7, 60, 40, 76, 51, 86, 40, 93, 39, 77, 0, 85, 83, 10, 39, 89, 17, 12, 89>>

\* pseudoRandom(seed): x = Math.sin(seed) * 10000; x - Math.floor(x)
pseudoRandom(seed) ==
  Q(PseudoRandomTable[(MathFloor(Mul(seed, I(10)))[1] % Len(PseudoRandomTable)) + 1], 100)

StarGlintDefaults ==
  [density |-> I(80), scale |-> I(15), sharpness |-> Q(7, 10), jitter |-> I(5),
   speed |-> I(4), color |-> "#000000"]

\* the lattice cell k of a star field: centre, darkness and twinkle phase
StarCell(sd, cols, rows, cellW, jitter, k) ==
  LET r == k \div cols
      c == k % cols
      cellH == cellW
      seed == I(r * cols + c)
      rx == Sub(pseudoRandom(Mul(seed, Q(11, 10))), Q(1, 2))
      ry == Sub(pseudoRandom(Mul(seed, Q(12, 10))), Q(1, 2))
      maxJitter == MathMin(jitter, Mul(cellW, Q(8, 10)))
  IN  [cell |-> <<r, c>>,
       darkness |-> Darkness(sd, LatticeCoord(c, cols), LatticeCoord(r, rows)),
       cx |-> Add(Add(Mul(I(c), cellW), Div(cellW, I(2))), Mul(rx, maxJitter)),
       cy |-> Add(Add(Mul(I(r), cellH), Div(cellH, I(2))), Mul(ry, maxJitter)),
       rPhase |-> Mul(Mul(pseudoRandom(Mul(seed, Q(13, 10))), MathPI), I(2))]

\* the size of a glyph at wave phase angle
StarScale(darkness, maxScale, cellW, angle) ==
  LET minScale == I(1)
      wave == Add(Q(1, 2), Mul(Q(1, 2), MathSin(angle)))
      weight == lerp(Mul(darkness, Q(2, 10)), darkness, wave)
      effectiveMaxScale == MathMin(maxScale, Mul(cellW, Q(15, 10)))
  IN  lerp(minScale, effectiveMaxScale, weight)

StarSkipped(darkness) == Lt(darkness, Q(3, 10))

\* the path of one glyph: centre (cx, cy), size cs, control distance cp
StarPath(cell, cx, cy, cs, cp) ==
  [cell |-> cell,
   d |-> <<ToFixed(cx, 1), ToFixed(Sub(cy, cs), 1),
           ToFixed(Add(cx, cp), 1), ToFixed(Sub(cy, cp), 1),
           ToFixed(Add(cx, cs), 1), ToFixed(cy, 1),
           ToFixed(Add(cx, cp), 1), ToFixed(Add(cy, cp), 1),
           ToFixed(cx, 1), ToFixed(Add(cy, cs), 1),
           ToFixed(Sub(cx, cp), 1), ToFixed(Add(cy, cp), 1),
           ToFixed(Sub(cx, cs), 1), ToFixed(cy, 1),
           ToFixed(Sub(cx, cp), 1), ToFixed(Sub(cy, cp), 1),
           ToFixed(cx, 1), ToFixed(Sub(cy, cs), 1)>>]
StarGlyph(star, currentScale, sharpness) ==
  StarPath(star.cell, star.cx, star.cy, currentScale,
           Mul(currentScale, Sub(I(1), sharpness)))

\* the lattice of a star field: [cols, rows, cellW]
StarLatticeOf(cols, cellW, outputHeight) ==
  [cols |-> cols, cellW |-> cellW, rows |-> AsInt(MathFloor(Div(outputHeight, cellW)))]
StarLattice(density, outputWidth, outputHeight) ==
  StarLatticeOf(AsInt(MathFloor(density)),
                Div(outputWidth, I(AsInt(MathFloor(density)))), outputHeight)

\* every lattice cell in row-major order
StarCells(sd, lat, jitter) ==
  [i \in 1..(lat.cols * lat.rows) |-> StarCell(sd, lat.cols, lat.rows, lat.cellW, jitter, i - 1)]

StarGlintDraw(m, lat, stars, outputWidth, outputHeight) ==
  LET Scale(star) == StarScale(star.darkness, m.scale, lat.cellW, star.rPhase)
      Kept(star) == ~StarSkipped(star.darkness) /\ ~Lt(Scale(star), Q(1, 2))
      Path(star) == StarGlyph(star, Scale(star), m.sharpness)
      Paths(kept) == [i \in 1..Len(kept) |-> Path(kept[i])]
  IN  [width |-> outputWidth, height |-> outputHeight, color |-> m.color,
       prims |-> Paths(SelectSeq(stars, Kept))]

StarGlintField(sd, m, lat, outputWidth, outputHeight) ==
  StarGlintDraw(m, lat, StarCells(sd, lat, m.jitter), outputWidth, outputHeight)

StarGlintMerged(sd, m, outputWidth, outputHeight) ==
  StarGlintField(sd, m, StarLattice(m.density, outputWidth, outputHeight),
                 outputWidth, outputHeight)

StarGlintGenerate(sd, params, outputWidth, outputHeight) ==
  StarGlintMerged(sd, Merge(StarGlintDefaults, params), outputWidth, outputHeight)

(***************************************************************************)
(* animate/effects/star-glint-anim.js                                      *)
(***************************************************************************)
StarGlintAnimDefaults ==
  [density |-> I(80), scale |-> I(15), sharpness |-> Q(7, 10), jitter |-> I(5),
   speed |-> I(4), color |-> "#000000"]

StarStoredAlways(darkness) == TRUE
StarStored(darkness) == ~Lt(darkness, Q(3, 10))

StarGlintStore(merged, lat, stars, outputWidth, outputHeight) ==
  LET Kept(star) == StarStored(star.darkness)
      Stored(kept) ==
        [i \in 1..Len(kept) |->
           [cell |-> kept[i].cell, sx |-> kept[i].cx, sy |-> kept[i].cy,
            sd |-> kept[i].darkness, sPhase |-> kept[i].rPhase]]
      State(stars_) ==
        [count |-> Len(stars_), stars |-> stars_,
         outputWidth |-> outputWidth, outputHeight |-> outputHeight,
         cellW |-> lat.cellW, params |-> merged]
  IN  State(Stored(SelectSeq(stars, Kept)))

StarGlintInitField(sd, merged, lat, outputWidth, outputHeight) ==
  StarGlintStore(merged, lat, StarCells(sd, lat, merged.jitter), outputWidth, outputHeight)

StarGlintInitMerged(sd, merged, outputWidth, outputHeight) ==
  StarGlintInitField(sd, merged, StarLattice(merged.density, outputWidth, outputHeight),
                     outputWidth, outputHeight)

StarGlintInit(sd, params, outputWidth, outputHeight) ==
  StarGlintInitMerged(sd, Merge(StarGlintAnimDefaults, params), outputWidth, outputHeight)

StarGlintDrawFrame(st, t) ==
  LET Scale(star) == StarScale(star.sd, st.params.scale, st.cellW,
                               Add(Mul(t, st.params.speed), star.sPhase))
      Kept(star) == ~Lt(Scale(star), Q(1, 2))
      Glyph(star, currentScale) ==
        [cell |-> star.cell, cx |-> star.sx, cy |-> star.sy, scale |-> currentScale,
         cpDist |-> Mul(currentScale, Sub(I(1), st.params.sharpness))]
      Glyphs(kept) == [j \in 1..Len(kept) |-> Glyph(kept[j], Scale(kept[j]))]
  IN  [clear |-> <<st.outputWidth, st.outputHeight>>, color |-> st.params.color,
       prims |-> Glyphs(SelectSeq(st.stars, Kept))]

(***************************************************************************)
(* engine/effects/particle-scatter.js, animate/effects/particle-scatter-anim.js *)
(***************************************************************************)
\* Math.pow(d, 1.8) for d = 0, 0.1, ..., 1, in ten-thousandths
Pow18Table == <<0, 158, 552, 1145, 1922, 2872, 3987, 5262, 6692, 8273, 10000>>

\* Math.pow(darkness, densityPower), densityPower = 1.8, on the table (the
\* darkness of a grid cell, rounded down to a tenth)
Pow18(darkness) == Q(Pow18Table[MathFloor(Mul(darkness, I(10)))[1] + 1], 10000)

\* the value rand() returns, from the numerator of the closure's result: its
\* three leading bits (a multiple of 1/8)
RandValue(out) == Q(out[1] \div 8192, 8)

\* rand = mulberry32(seed): the closure's variable s
ParticleRandShared(seed) == fxRng
ParticleRand(seed) == mulberry32(Bits(AsInt(seed)))

\* the inner loop without the 0.02 floor of a cell's weight
RECURSIVE WeightRow_nofloor(_, _, _, _)
WeightRow_nofloor(sd, k, total, end) ==
  IF k = end THEN <<>>
  ELSE LET darkness == Sub(I(1), sd.grid[(k \div sd.cols) + 1][(k % sd.cols) + 1])
           w == Pow18(darkness)
       IN  <<Add(total, w)>> \o WeightRow_nofloor(sd, k + 1, Add(total, w), end)

\* the inner loop over the columns of a row, from cell k up to cell end
RECURSIVE WeightRow(_, _, _, _)
WeightRow(sd, k, total, end) ==
  IF k = end THEN <<>>
  ELSE LET darkness == Sub(I(1), sd.grid[(k \div sd.cols) + 1][(k % sd.cols) + 1])
           w == Add(Pow18(darkness), Q(2, 100))
       IN  <<Add(total, w)>> \o WeightRow(sd, k + 1, Add(total, w), end)

WeightRowFrom(sd, k, total) == WeightRow(sd, k, total, k + sd.cols - (k % sd.cols))

\* the cumulative weight table over the grid cells, row by row
RECURSIVE CumulativeWeights(_, _, _)
WeightRowsAfter(sd, k, row) ==
  row \o CumulativeWeights(sd, k + Len(row), row[Len(row)])

CumulativeWeights(sd, k, total) ==
  IF k = sd.cols * sd.rows THEN <<>>
  ELSE WeightRowsAfter(sd, k, WeightRowFrom(sd, k, total))

\* a search that moves lo past an entry equal to the target
RECURSIVE BinarySearch_upper(_, _, _, _)
BinarySearch_upper(weights, target, lo, hi) ==
  IF lo < hi
  THEN LET mid == (lo + hi) \div 2
       IN  IF Le(weights[mid + 1], target)
           THEN BinarySearch_upper(weights, target, mid + 1, hi)
           ELSE BinarySearch_upper(weights, target, lo, mid)
  ELSE lo

\* weighted random cell pick via binary search
RECURSIVE BinarySearch(_, _, _, _)
BinarySearch(weights, target, lo, hi) ==
  IF lo < hi
  THEN LET mid == (lo + hi) \div 2
       IN  IF Lt(weights[mid + 1], target)
           THEN BinarySearch(weights, target, mid + 1, hi)
           ELSE BinarySearch(weights, target, lo, mid)
  ELSE lo

\* Math.min(minRadius, maxRadius), Math.max(minRadius, maxRadius)
SafeMinRadius_unordered(m) == m.minRadius
SafeMinRadius(m) == MathMin(m.minRadius, m.maxRadius)
SafeMaxRadius(m) == MathMax(m.minRadius, m.maxRadius)

\* n successive calls of the closure from state s: <<[s, out], ...>>
RECURSIVE MulberryDraws(_, _)
MulberryDraws(s, n) ==
  IF n = 0 THEN <<>>
  ELSE <<Mulberry32Call(s)>> \o MulberryDraws(JsAddToInt32(s, Golden), n - 1)

\* one turn of the particle loop up to the base radius: the closure's state
\* afterwards and the candidate particle, or skip.  d holds the turn's four
\* values of rand(): target, jitter x, jitter y, radius factor
ParticleSized_uncut(m, d, x, y, darkness, baseR) ==
  [s |-> d[4].s, skip |-> FALSE, x |-> x, y |-> y, darkness |-> darkness, baseR |-> baseR]
ParticleSized(m, d, x, y, darkness, baseR) ==
  IF Lt(baseR, Q(15, 100)) THEN [s |-> d[4].s, skip |-> TRUE]
  ELSE [s |-> d[4].s, skip |-> FALSE, x |-> x, y |-> y, darkness |-> darkness,
        baseR |-> baseR]

ParticleSampled(m, d, x, y, darkness) ==
  ParticleSized(m, d, x, y, darkness,
                lerp(SafeMinRadius(m), SafeMaxRadius(m),
                     Mul(darkness, Add(Q(3, 10), Mul(RandValue(d[4].out), Q(7, 10))))))

ParticlePlaced(sd, m, outputWidth, outputHeight, d, x, y) ==
  IF Lt(x, I(0)) \/ Lt(outputWidth, x) \/ Lt(y, I(0)) \/ Lt(outputHeight, y)
  THEN [s |-> d[3].s, skip |-> TRUE]
  ELSE ParticleSampled(m, d, x, y,
                       Darkness(sd, Div(x, outputWidth), Div(y, outputHeight)))

ParticleInCell(sd, m, outputWidth, outputHeight, d, cellIndex) ==
  ParticlePlaced(sd, m, outputWidth, outputHeight, d,
    Mul(Add(Add(I(cellIndex % sd.cols), Q(1, 2)),
            Mul(Sub(RandValue(d[2].out), Q(1, 2)), Add(I(1), m.scatter))),
        Div(outputWidth, I(sd.cols))),
    Mul(Add(Add(I(cellIndex \div sd.cols), Q(1, 2)),
            Mul(Sub(RandValue(d[3].out), Q(1, 2)), Add(I(1), m.scatter))),
        Div(outputHeight, I(sd.rows))))

ParticleDrawn(sd, m, weights, outputWidth, outputHeight, d) ==
  ParticleInCell(sd, m, outputWidth, outputHeight, d,
    BinarySearch(weights, Mul(RandValue(d[1].out), weights[Len(weights)]),
                 0, Len(weights) - 1))

ParticleCandidate(sd, m, weights, outputWidth, outputHeight, s) ==
  ParticleDrawn(sd, m, weights, outputWidth, outputHeight, MulberryDraws(s, 4))

ParticleScatterDefaults ==
  [maxDots |-> I(6000), maxRadius |-> I(6), minRadius |-> Q(1, 2), seed |-> I(42),
   scatter |-> I(1), speed |-> I(4), color |-> "#000000"]

\* the loop of generate, n turns from closure state s: [s, prims]
RECURSIVE ParticleStaticLoop(_, _, _, _, _, _, _)
ParticleStaticPush(cand, r, rest) ==
  IF Lt(r, Q(15, 100)) THEN rest
  ELSE [s |-> rest.s,
        prims |-> <<[cx |-> ToFixed(cand.x, 2), cy |-> ToFixed(cand.y, 2),
                     r |-> ToFixed(r, 2), darkness |-> cand.darkness]>> \o rest.prims]

ParticleStaticPulse(sd, m, weights, outputWidth, outputHeight, n, cand, d5) ==
  ParticleStaticPush(cand,
    lerp(SafeMinRadius(m), cand.baseR,
         Add(Q(1, 2), Mul(Q(1, 2), MathSin(Mul(Mul(RandValue(d5.out), MathPI), I(2)))))),
    ParticleStaticLoop(sd, m, weights, outputWidth, outputHeight, n - 1, d5.s))

ParticleStaticTurn(sd, m, weights, outputWidth, outputHeight, n, cand) ==
  IF cand.skip
  THEN ParticleStaticLoop(sd, m, weights, outputWidth, outputHeight, n - 1, cand.s)
  ELSE ParticleStaticPulse(sd, m, weights, outputWidth, outputHeight, n, cand,
                           Mulberry32Call(cand.s))

ParticleStaticLoop(sd, m, weights, outputWidth, outputHeight, n, s) ==
  IF n = 0 THEN [s |-> s, prims |-> <<>>]
  ELSE ParticleStaticTurn(sd, m, weights, outputWidth, outputHeight, n,
         ParticleCandidate(sd, m, weights, outputWidth, outputHeight, s))

ParticleStaticSvg(m, outputWidth, outputHeight, rand, weights, loop) ==
  IF weights[Len(weights)] = I(0)
  THEN [s |-> rand,
        svg |-> [width |-> outputWidth, height |-> outputHeight,
                 color |-> m.color, prims |-> <<>>]]
  ELSE [s |-> loop.s,
        svg |-> [width |-> outputWidth, height |-> outputHeight,
                 color |-> m.color, prims |-> loop.prims]]

ParticleStaticRun(sd, m, outputWidth, outputHeight, rand, weights) ==
  ParticleStaticSvg(m, outputWidth, outputHeight, rand, weights,
    ParticleStaticLoop(sd, m, weights, outputWidth, outputHeight,
                       AsInt(MathMax(I(1), MathRound(m.maxDots))), rand))

ParticleStaticMerged(sd, m, outputWidth, outputHeight) ==
  ParticleStaticRun(sd, m, outputWidth, outputHeight, ParticleRand(m.seed),
                    CumulativeWeights(sd, 0, I(0)))

\* generate: [s, svg] (s: the state its closure is left in)
ParticleScatterGenerate(sd, params, outputWidth, outputHeight) ==
  ParticleStaticMerged(sd, Merge(ParticleScatterDefaults, params), outputWidth, outputHeight)

ParticleScatterAnimDefaults ==
  [maxDots |-> I(6000), maxRadius |-> I(6), minRadius |-> Q(1, 2), seed |-> I(42),
   scatter |-> I(1), speed |-> Q(18, 10), color |-> "#000000"]

\* the loop of init, n turns from closure state s: [s, particles]
RECURSIVE ParticleInitLoop(_, _, _, _, _, _, _)
ParticleInitPush(cand, d5, rest) ==
  [s |-> rest.s,
   particles |-> <<[px |-> cand.x, py |-> cand.y, pr |-> cand.baseR,
                    ph |-> Mul(Mul(RandValue(d5.out), MathPI), I(2)),
                    darkness |-> cand.darkness]>> \o rest.particles]

ParticleInitPhase(sd, m, weights, outputWidth, outputHeight, n, cand, d5) ==
  ParticleInitPush(cand, d5,
    ParticleInitLoop(sd, m, weights, outputWidth, outputHeight, n - 1, d5.s))

ParticleInitTurn(sd, m, weights, outputWidth, outputHeight, n, cand) ==
  IF cand.skip
  THEN ParticleInitLoop(sd, m, weights, outputWidth, outputHeight, n - 1, cand.s)
  ELSE ParticleInitPhase(sd, m, weights, outputWidth, outputHeight, n, cand,
                         Mulberry32Call(cand.s))

ParticleInitLoop(sd, m, weights, outputWidth, outputHeight, n, s) ==
  IF n = 0 THEN [s |-> s, particles |-> <<>>]
  ELSE ParticleInitTurn(sd, m, weights, outputWidth, outputHeight, n,
         ParticleCandidate(sd, m, weights, outputWidth, outputHeight, s))

ParticleInitState(m, outputWidth, outputHeight, loop) ==
  [s |-> loop.s,
   state |-> [particles |-> loop.particles, count |-> Len(loop.particles),
              outputWidth |-> outputWidth, outputHeight |-> outputHeight,
              params |-> m]]

ParticleInitMerged(sd, m, outputWidth, outputHeight) ==
  ParticleInitState(m, outputWidth, outputHeight,
    ParticleInitLoop(sd, m, CumulativeWeights(sd, 0, I(0)), outputWidth, outputHeight,
                     AsInt(MathMax(I(1), MathRound(m.maxDots))), ParticleRand(m.seed)))

\* init: [s, state]
ParticleScatterInit(sd, params, outputWidth, outputHeight) ==
  ParticleInitMerged(sd, Merge(ParticleScatterAnimDefaults, params), outputWidth, outputHeight)

ParticleScatterDrawFrame(st, t) ==
  LET R(p) == lerp(SafeMinRadius(st.params), p.pr,
                   Add(Q(1, 2), Mul(Q(1, 2), MathSin(Add(Mul(t, st.params.speed), p.ph)))))
      Kept(p) == ~Lt(R(p), Q(15, 100))
      Arc(p, r) == [cx |-> p.px, cy |-> p.py, r |-> r, darkness |-> p.darkness]
      Arcs(kept) == [j \in 1..Len(kept) |-> Arc(kept[j], R(kept[j]))]
  IN  [clear |-> <<st.outputWidth, st.outputHeight>>, color |-> st.params.color,
       prims |-> Arcs(SelectSeq(st.particles, Kept))]

(***************************************************************************)
(* engine/effects/line-halftone.js, animate/effects/line-halftone-anim.js  *)
(***************************************************************************)
LineHalftoneDefaults ==
  [density |-> I(80), contrast |-> I(15), pulse |-> Q(3, 2), speed |-> I(3),
   color |-> "#000000"]

\* the stroke width of one segment from its darkness and the wave phase
HalftoneWidth(darkness, contrast, cellH, phase) ==
  LET minStroke == Q(1, 2)
      maxStroke == MathMin(contrast, Mul(cellH, Q(18, 10)))
      wave == Add(Q(1, 2), Mul(Q(1, 2), MathSin(phase)))
      weight == lerp(Mul(darkness, Q(2, 10)), darkness, wave)
  IN  lerp(minStroke, maxStroke, weight)

LineHalftoneGenerate(sd, params, outputWidth, outputHeight) ==
  LET m == Merge(LineHalftoneDefaults, params)
      rows == AsInt(MathFloor(m.density))
      cellH == Div(outputHeight, I(rows))
      stepW == Div(outputWidth, I(StepsPerLine))
      U(k) == Div(I(k % StepsPerLine), I(StepsPerLine - 1))
      D(k) == Darkness(sd, U(k), LatticeCoord(k \div StepsPerLine, rows))
      Kept(k) == ~Lt(D(k), Q(3, 10))
      Seg(k) ==
        LET cy == Add(Mul(I(k \div StepsPerLine), cellH), Div(cellH, I(2)))
            cx == Add(Mul(I(k % StepsPerLine), stepW), Div(stepW, I(2)))
            strokeW == HalftoneWidth(D(k), m.contrast, cellH,
                                     Mul(Mul(Mul(U(k), MathPI), I(2)), m.pulse))
        IN  [cell |-> <<k \div StepsPerLine, k % StepsPerLine>>,
             x1 |-> ToFixed(Sub(cx, Div(stepW, I(2))), 1), y1 |-> ToFixed(cy, 1),
             x2 |-> ToFixed(Add(Add(cx, Div(stepW, I(2))), Q(1, 2)), 1),
             y2 |-> ToFixed(cy, 1), strokeWidth |-> ToFixed(strokeW, 2)]
      cells == SelectSeq([i \in 1..(rows * StepsPerLine) |-> i - 1], Kept)
  IN  [width |-> outputWidth, height |-> outputHeight, color |-> m.color,
       prims |-> [i \in 1..Len(cells) |-> Seg(cells[i])]]

LineHalftoneInit(sd, params, outputWidth, outputHeight) ==
  LET m == Merge(LineHalftoneDefaults, params)
      rows == AsInt(MathFloor(m.density))
      cellH == Div(outputHeight, I(rows))
      stepW == Div(outputWidth, I(StepsPerLine))
      D(k) == Darkness(sd, LatticeCoord(k % StepsPerLine, StepsPerLine),
                           LatticeCoord(k \div StepsPerLine, rows))
      Stored(k) == ~Lt(D(k), Q(3, 10))
      cells == SelectSeq([i \in 1..(rows * StepsPerLine) |-> i - 1], Stored)
  IN  [count |-> Len(cells), stepsPerLine |-> StepsPerLine, stepW |-> stepW,
       segs |-> [i \in 1..Len(cells) |->
                   [cell |-> <<cells[i] \div StepsPerLine, cells[i] % StepsPerLine>>,
                    sx |-> Add(Mul(I(cells[i] % StepsPerLine), stepW), Div(stepW, I(2))),
                    sy |-> Add(Mul(I(cells[i] \div StepsPerLine), cellH), Div(cellH, I(2))),
                    sd |-> D(cells[i])]],
       outputWidth |-> outputWidth, outputHeight |-> outputHeight, cellH |-> cellH,
       params |-> m]

LineHalftoneDrawFrame(st, t) ==
  LET p == st.params
      Seg(i) ==
        LET x == st.segs[i].sx
            y == st.segs[i].sy
            u == Div(x, st.outputWidth)
            phase == Add(Mul(Mul(Mul(u, MathPI), I(2)), p.pulse),
                         Mul(Mul(t, p.speed), I(2)))
        IN  [cell |-> st.segs[i].cell,
             x1 |-> Sub(x, Div(st.stepW, I(2))), y1 |-> y,
             x2 |-> Add(Add(x, Div(st.stepW, I(2))), Q(1, 2)), y2 |-> y,
             strokeWidth |-> HalftoneWidth(st.segs[i].sd, p.contrast, st.cellH, phase)]
  IN  [clear |-> <<st.outputWidth, st.outputHeight>>, color |-> p.color,
       prims |-> [i \in 1..st.count |-> Seg(i)]]

(***************************************************************************)
(* State                                                                   *)
(***************************************************************************)
rngVars == <<rngSeed, gen, seq>>
bilVars == <<bilGrid, bilCall, bilOut>>
fxVars == <<fxData, fxSize, fxEffect, fxParams, fxSvg, fxAnim, fxFrame, fxRng, art>>
liveVars == <<cvs, drv>>
hostVars == <<smp, liveVars, job>>
appVars == <<run, app>>
vars == <<rngVars, bilVars, fxVars, hostVars, appVars>>

(***************************************************************************)
(* The seeded sequence generator                                           *)
(***************************************************************************)
GenNames == {"a", "b", "inlined"}

\* seeds: 0, 1, the default 42, 2^31 - 1, 2^31, 2^32 - 1, and two arbitrary
SeedSet == {<<0, 0>>, <<0, 1>>, <<0, 42>>, <<32767, 65535>>, <<32768, 0>>,
            <<65535, 65535>>, <<1883, 52501>>, <<48879, 51966>>}

RngIdle == rngSeed = <<0, 0>> /\ gen = [g \in GenNames |-> 0]
           /\ seq = [g \in GenNames |-> <<>>]

RngInit ==
  /\ rngSeed \in SeedSet
  /\ gen = [g \in GenNames |->
              IF g = "inlined" THEN mulberry32_inlined(rngSeed) ELSE mulberry32(rngSeed)]
  /\ seq = [g \in GenNames |-> <<>>]

Draw(g, call) ==
  /\ Len(seq[g]) < MaxDraws
  /\ gen' = [gen EXCEPT ![g] = call.s]
  /\ seq' = [seq EXCEPT ![g] = Append(@, call.out)]
  /\ UNCHANGED <<rngSeed, bilVars, fxVars, hostVars, appVars>>

DrawA == Draw("a", Mulberry32Call(gen["a"]))
DrawB == Draw("b", Mulberry32Call(gen["b"]))
DrawInlined == Draw("inlined", Mulberry32InlinedCall(gen["inlined"]))

(***************************************************************************)
(* The bilinear sampler                                                    *)
(***************************************************************************)
\* fields of every shape up to the bounds, filled with tenths in a pattern
PatternGrid(cols, rows, k) ==
  [r \in 1..rows |-> [c \in 1..cols |-> Q((3 * r + 5 * c + 7 * k) % 11, 10)]]
BilGrids == {PatternGrid(c, r, k) : c \in 1..MaxBilCols, r \in 1..MaxBilRows,
                                    k \in 0..MaxPatterns}

GridCols(grid) == Len(grid[1])
GridRows(grid) == Len(grid)

NoCall == [kind |-> "none", c |-> 0, r |-> 0, u |-> I(0), v |-> I(0)]

BilIdle == bilGrid = <<<<I(0)>>>> /\ bilCall = NoCall /\ bilOut = I(0)

BilInit == bilGrid \in BilGrids /\ bilCall = NoCall /\ bilOut = I(0)

UnitSteps == {Q(k, BilSteps) : k \in 0..BilSteps}

\* sampleBilinear at an arbitrary point of the unit square
SamplePoint ==
  \E u \in UnitSteps, v \in UnitSteps :
    /\ bilCall' = [kind |-> "point", c |-> 0, r |-> 0, u |-> u, v |-> v]
    /\ bilOut' = sampleBilinear(bilGrid, GridCols(bilGrid), GridRows(bilGrid), u, v)
    /\ UNCHANGED <<bilGrid, rngVars, fxVars, hostVars, appVars>>

\* sampleBilinear at the normalized coordinates of cell (r, c):
\* u = c / (cols - 1), v = r / (rows - 1)
SampleCell ==
  \E c \in 0..(GridCols(bilGrid) - 1), r \in 0..(GridRows(bilGrid) - 1) :
    LET u == Div(I(c), I(GridCols(bilGrid) - 1))
        v == Div(I(r), I(GridRows(bilGrid) - 1))
    IN  /\ bilCall' = [kind |-> "cell", c |-> c, r |-> r, u |-> u, v |-> v]
        /\ bilOut' = sampleBilinear(bilGrid, GridCols(bilGrid), GridRows(bilGrid), u, v)
        /\ UNCHANGED <<bilGrid, rngVars, fxVars, hostVars, appVars>>

(***************************************************************************)
(* The effect modules as called by the editor                              *)
(***************************************************************************)
Effects == {"ParticleScatter", "EllipseGrid", "HorizontalLines", "VerticalLines",
            "StarGlint", "LineHalftone"}

NoValue == [none |-> TRUE]

\* sample grids of 2 x 2 brightness cells in tenths; the first is all white
FxGrid(k) ==
  [grid |-> [r \in 1..2 |-> [c \in 1..2 |-> Q((10 + (k - 1) * (3 * r + 5 * c)) % 11, 10)]],
   cols |-> 2, rows |-> 2, aspect |-> I(1)]

FxGrids == {FxGrid(k) : k \in 1..MaxFxGrids}
FxSizes == {<<I(4), I(4)>>, <<I(4), I(6)>>}
FxTimes == {Q(i, 2) : i \in 0..MaxTicks}

\* the parameter objects the caller passes, per effect
FxChoices(effect) ==
  CASE effect \in {"VerticalLines", "HorizontalLines"} ->
         {[color |-> "#000000"],
          [minLength |-> I(1), maxLength |-> Q(1, 20)],
          [minStroke |-> I(4), maxStroke |-> Q(1, 2)]}
    [] effect = "EllipseGrid" ->
         {[cols |-> I(2)], [cols |-> I(2), maxRy |-> I(500)]}
    [] effect = "StarGlint" ->
         {[density |-> I(2)], [density |-> I(2), scale |-> I(2)]}
    [] effect = "LineHalftone" ->
         {[density |-> I(1)], [density |-> I(1), contrast |-> I(2)]}
    [] effect = "ParticleScatter" ->
         {[maxDots |-> I(MaxDots)],
          [maxDots |-> I(MaxDots), minRadius |-> I(6), maxRadius |-> Q(1, 2)],
          [maxDots |-> I(MaxDots), minRadius |-> Q(1, 10), maxRadius |-> I(2)],
          [maxDots |-> I(MaxDots), seed |-> I(7)]}

\* generate of the effect's static module: [s, svg]
GenerateOf(effect, sd, params, size) ==
  CASE effect = "ParticleScatter" -> ParticleScatterGenerate(sd, params, size[1], size[2])
    [] effect = "EllipseGrid" ->
         [s |-> fxRng, svg |-> EllipseGridGenerate(sd, params, size[1], size[2])]
    [] effect = "HorizontalLines" ->
         [s |-> fxRng, svg |-> HorizontalLinesGenerate(sd, params, size[1], size[2])]
    [] effect = "VerticalLines" ->
         [s |-> fxRng, svg |-> VerticalLinesGenerate(sd, params, size[1], size[2])]
    [] effect = "StarGlint" ->
         [s |-> fxRng, svg |-> StarGlintGenerate(sd, params, size[1], size[2])]
    [] effect = "LineHalftone" ->
         [s |-> fxRng, svg |-> LineHalftoneGenerate(sd, params, size[1], size[2])]

\* init of the effect's animated module: [s, state]
InitOf(effect, sd, params, size) ==
  CASE effect = "ParticleScatter" -> ParticleScatterInit(sd, params, size[1], size[2])
    [] effect = "EllipseGrid" ->
         [s |-> fxRng, state |-> EllipseGridInit(sd, params, size[1], size[2])]
    [] effect = "HorizontalLines" ->
         [s |-> fxRng, state |-> HorizontalLinesInit(sd, params, size[1], size[2])]
    [] effect = "VerticalLines" ->
         [s |-> fxRng, state |-> VerticalLinesInit(sd, params, size[1], size[2])]
    [] effect = "StarGlint" ->
         [s |-> fxRng, state |-> StarGlintInit(sd, params, size[1], size[2])]
    [] effect = "LineHalftone" ->
         [s |-> fxRng, state |-> LineHalftoneInit(sd, params, size[1], size[2])]

\* drawFrame of the effect's animated module: the canvas calls it issues
DrawFrameOf(effect, st, t) ==
  CASE effect = "ParticleScatter" -> ParticleScatterDrawFrame(st, t)
    [] effect = "EllipseGrid" -> EllipseGridDrawFrame(st, t)
    [] effect = "HorizontalLines" -> HorizontalLinesDrawFrame(st, t)
    [] effect = "VerticalLines" -> VerticalLinesDrawFrame(st, t)
    [] effect = "StarGlint" -> StarGlintDrawFrame(st, t)
    [] effect = "LineHalftone" -> LineHalftoneDrawFrame(st, t)

ArtIdle == art = [pc |-> "editor"]

FxIdle ==
  /\ fxData = FxGrid(1) /\ fxSize = <<I(4), I(4)>> /\ fxEffect = "VerticalLines"
  /\ fxParams = [color |-> "#000000"]
  /\ fxSvg = NoValue /\ fxAnim = NoValue /\ fxFrame = NoValue /\ fxRng = 0
  /\ ArtIdle

FxInit ==
  /\ fxData \in FxGrids
  /\ fxSize \in FxSizes
  /\ fxEffect \in Effects
  /\ fxParams \in FxChoices(fxEffect)
  /\ fxSvg = NoValue /\ fxAnim = NoValue /\ fxFrame = NoValue
  /\ fxRng = 0
  /\ ArtIdle

\* the user moves the sliders: the animated state is rebuilt on the next init
SetInputs(p) ==
  /\ p # fxParams
  /\ fxParams' = p
  /\ fxAnim' = NoValue /\ fxFrame' = NoValue
  /\ UNCHANGED <<fxData, fxSize, fxEffect, fxSvg, fxRng, art, rngVars, bilVars, hostVars, appVars>>

Generate ==
  LET res == GenerateOf(fxEffect, fxData, fxParams, fxSize)
  IN  /\ fxSvg' = [params |-> fxParams, out |-> res.svg]
      /\ fxRng' = res.s
      /\ UNCHANGED <<fxData, fxSize, fxEffect, fxParams, fxAnim, fxFrame, art,
                     rngVars, bilVars, hostVars, appVars>>

InitAnim ==
  LET res == InitOf(fxEffect, fxData, fxParams, fxSize)
  IN  /\ fxAnim' = res.state
      /\ fxFrame' = NoValue
      /\ fxRng' = res.s
      /\ UNCHANGED <<fxData, fxSize, fxEffect, fxParams, fxSvg, art, rngVars, bilVars, hostVars, appVars>>

\* a frame that advances by t from the frame before it
DrawFrame_accumulating(t) ==
  /\ fxAnim # NoValue
  /\ fxFrame' = [t |-> t,
                 draws |-> DrawFrameOf(fxEffect, fxAnim,
                                       IF fxFrame = NoValue THEN t ELSE Add(t, fxFrame.t))]
  /\ UNCHANGED <<fxData, fxSize, fxEffect, fxParams, fxSvg, fxAnim, fxRng, art,
                 rngVars, bilVars, hostVars, appVars>>

DrawFrame(t) ==
  /\ fxAnim # NoValue
  /\ fxFrame' = [t |-> t, draws |-> DrawFrameOf(fxEffect, fxAnim, t)]
  /\ UNCHANGED <<fxData, fxSize, fxEffect, fxParams, fxSvg, fxAnim, fxRng, art,
                 rngVars, bilVars, hostVars, appVars>>

SetInputsStep == \E p \in FxChoices(fxEffect) : SetInputs(p)
DrawFrameStep == \E t \in FxTimes : DrawFrame(t)

(***************************************************************************)
(* components/EffectPairPanel.jsx: the standalone HTML export              *)
(***************************************************************************)
\* the names the page's script binds before the effect text runs
MathUtilsNames == {"lerp", "clamp", "mulberry32", "sampleBilinear"}
EmbeddedNames == {"getDefaultParams", "init", "drawFrame"}
HarnessNames == {"SAMPLE_DATA", "LOGO_ASPECT", "PARAMS", "canvas", "ctx", "animState",
                 "rafId", "setup", "loop", "resize"}
\* globals of every browser page
HostNames == {"Math", "Float32Array", "document", "window", "requestAnimationFrame",
              "cancelAnimationFrame"}
ArtifactBound == MathUtilsNames \cup EmbeddedNames \cup HarnessNames \cup HostNames

\* the free identifiers of the text of each animated module's functions
\* (animModule.getDefaultParams / init / drawFrame .toString())
InitFree(effect) ==
  CASE effect \in {"VerticalLines", "HorizontalLines", "EllipseGrid"} ->
         {"getDefaultParams", "Math", "Float32Array", "lerp", "sampleBilinear"}
    [] effect = "StarGlint" ->
         {"getDefaultParams", "Math", "Float32Array", "sampleBilinear", "pseudoRandom"}
    [] effect = "ParticleScatter" ->
         {"getDefaultParams", "Math", "Float32Array", "lerp", "mulberry32", "sampleBilinear"}
    [] effect = "LineHalftone" ->
         {"getDefaultParams", "Math", "Float32Array", "sampleBilinear"}
DrawFrameFree(effect) == {"Math", "lerp"}
DefaultParamsFree(effect) == {}
FreeIdentifiers(effect) ==
  DefaultParamsFree(effect) \cup InitFree(effect) \cup DrawFrameFree(effect)

\* getDefaultParams() of the animated module
AnimDefaultsOf(effect) ==
  CASE effect = "ParticleScatter" -> ParticleScatterAnimDefaults
    [] effect = "EllipseGrid" -> EllipseGridAnimDefaults
    [] effect = "HorizontalLines" -> HorizontalLinesAnimDefaults
    [] effect = "VerticalLines" -> VerticalLinesAnimDefaults
    [] effect = "StarGlint" -> StarGlintAnimDefaults
    [] effect = "LineHalftone" -> LineHalftoneDefaults

\* the identifiers a run of init evaluates: Star Glint calls pseudoRandom
\* only for a cell it stores (darkness >= 0.3)
InitReaches(effect, sd, params, size) ==
  IF effect = "StarGlint" /\ StarGlintInit(sd, params, size[1], size[2]).count = 0
  THEN InitFree(effect) \ {"pseudoRandom"}
  ELSE InitFree(effect)

\* no timestamp yet (startRef.current = null in the live loop)
NoStamp == -1
\* requestAnimationFrame timestamps, in milliseconds
Stamps == {FrameMs * i : i \in 1..MaxStamps}

\* buildStandaloneHTML(title, animModule, sampleData, params): the page embeds
\* the grid, the current params and the three function texts; now is the
\* page's clock, 0 at the time origin of its load
ExportHTML ==
  /\ art.pc = "editor"
  /\ art' = [pc |-> "built", effect |-> fxEffect, params |-> fxParams, now |-> 0]
  /\ UNCHANGED <<fxData, fxSize, fxEffect, fxParams, fxSvg, fxAnim, fxFrame, fxRng,
                 rngVars, bilVars, hostVars, appVars>>

\* resize() -> setup(w, h): animState = init(SAMPLE_DATA, {...getDefaultParams(),
\* ...PARAMS}, w, h), then the first requestAnimationFrame(loop); a
\* ReferenceError thrown in init leaves the page without a loop. first is the
\* timestamp of the first frame drawn with this animState, t the last time
\* passed to drawFrame
\* the requests of the page pending in the browser; while the page runs,
\* rafId is the latest of them
ArtPending == IF art.pc = "running" THEN art.raf ELSE 0

\* what is pending after if (rafId) cancelAnimationFrame(rafId)
ArtCancelled == IF art.pc = "running" THEN art.raf - 1 ELSE 0

\* a resize that requests a frame without cancelling the pending request
ArtSetup_nocancel(view, size, merged, unbound) ==
  /\ art.pc \in {"built", "running", "failed"}
  /\ art' = IF unbound # {}
            THEN [pc |-> "failed", effect |-> art.effect, params |-> art.params,
                  view |-> view, size |-> size, error |-> unbound, now |-> art.now]
            ELSE [pc |-> "running", effect |-> art.effect, params |-> art.params,
                  view |-> view, size |-> size, frames |-> 0, drawn |-> 0,
                  now |-> art.now, first |-> NoStamp, t |-> Null,
                  raf |-> ArtPending + 1,
                  animState |-> InitOf(art.effect, fxData, merged, size).state]
  /\ UNCHANGED <<fxData, fxSize, fxEffect, fxParams, fxSvg, fxAnim, fxFrame, fxRng,
                 rngVars, bilVars, hostVars, appVars>>

\* view is the viewport resize() read, size the w x h it passes to setup; raf
\* counts the pending requests: the one of line 418, made after the
\* cancellation of line 407 unless init threw
ArtSetup(view, size, merged, unbound) ==
  /\ art.pc \in {"built", "running", "failed"}
  /\ art' = IF unbound # {}
            THEN [pc |-> "failed", effect |-> art.effect, params |-> art.params,
                  view |-> view, size |-> size, error |-> unbound, now |-> art.now]
            ELSE [pc |-> "running", effect |-> art.effect, params |-> art.params,
                  view |-> view, size |-> size, frames |-> 0, drawn |-> 0,
                  now |-> art.now, first |-> NoStamp, t |-> Null,
                  raf |-> ArtCancelled + 1,
                  animState |-> InitOf(art.effect, fxData, merged, size).state]
  /\ UNCHANGED <<fxData, fxSize, fxEffect, fxParams, fxSvg, fxAnim, fxFrame, fxRng,
                 rngVars, bilVars, hostVars, appVars>>

ArtResizeTo(view, size, merged) ==
  ArtSetup(view, size, merged, InitReaches(art.effect, fxData, merged, size) \ ArtifactBound)

\* the display size fitted into the viewport vw x vh (lines 408-412):
\* w = vw, h = vw / LOGO_ASPECT; if (h > vh) { h = vh; w = vh * LOGO_ASPECT },
\* both floored
ArtFitted(vw, vh, aspect) ==
  IF Lt(vh, Div(vw, aspect))
  THEN <<MathFloor(Mul(vh, aspect)), MathFloor(vh)>>
  ELSE <<MathFloor(vw), MathFloor(Div(vw, aspect))>>

\* window.innerWidth x window.innerHeight at a resize event
Viewports == {<<I(4), I(5)>>, <<I(7), I(5)>>}

ArtResize ==
  \E view \in Viewports :
    /\ art.pc # "editor"
    /\ ArtResizeTo(view, ArtFitted(view[1], view[2], fxData.aspect),
                   Merge(AnimDefaultsOf(art.effect), art.params))

\* loop(ts): the browser takes the request off its list and calls loop, which
\* requests the next frame first (raf is as before) and then calls
\* drawFrame(ctx, animState, ts / 1000); ts is the timestamp the
\* browser hands to the requestAnimationFrame callback, milliseconds since
\* the page's time origin
ArtLoop ==
  \E ts \in Stamps :
    /\ art.pc = "running"
    /\ art.raf > 0
    /\ art.frames < MaxFrames
    /\ ts > art.now
    /\ DrawFrameFree(art.effect) \subseteq ArtifactBound
    /\ art' = [art EXCEPT !.frames = @ + 1,
                          !.now = ts,
                          !.first = IF @ = NoStamp THEN ts ELSE @,
                          !.t = Q(ts, 1000),
                          !.drawn = Len(DrawFrameOf(art.effect, art.animState,
                                                    Q(ts, 1000)).prims)]
    /\ UNCHANGED <<fxData, fxSize, fxEffect, fxParams, fxSvg, fxAnim, fxFrame, fxRng,
                   rngVars, bilVars, hostVars, appVars>>

(***************************************************************************)
(* engine/svg-sampler.js                                                   *)
(***************************************************************************)
\* Infinity and -Infinity, beside NaN among the values that are no fraction
PosInf == <<2, 0>>
NegInf == <<-2, 0>>
IsInf(a) == a = PosInf \/ a = NegInf

\* JavaScript division with its infinities (every zero drawn here is +0)
JsDiv(a, b) ==
  IF IsNum(a) /\ IsNum(b)
  THEN (IF b[1] # 0 THEN Div(a, b)
        ELSE IF a[1] = 0 THEN NaN ELSE IF a[1] > 0 THEN PosInf ELSE NegInf)
  ELSE IF IsNum(a) /\ IsInf(b) THEN I(0)
  ELSE IF IsInf(a) /\ IsNum(b)
       THEN (IF (a[1] > 0) = (b[1] >= 0) THEN PosInf ELSE NegInf)
  ELSE NaN

\* Math.max(1, Math.round(x)) of line 14
RoundAtLeastOne(x) ==
  IF x = PosInf THEN PosInf ELSE IF x = NegInf THEN I(1) ELSE MathMax(I(1), MathRound(x))

\* an attribute text, by what Number and parseFloat make of it: "num" a plain
\* number, "unit" a number followed by letters ("4px"), "inf" the word
\* Infinity, "empty" the empty string, "junk" any other text, "absent" no
\* attribute at all
Tok(kind, v) == [k |-> kind, v |-> v]
JsNumber(tok) ==
  CASE tok.k = "num" -> tok.v
    [] tok.k = "empty" -> I(0)
    [] tok.k = "inf" -> PosInf
    [] OTHER -> NaN
ParseFloat(tok) ==
  CASE tok.k \in {"num", "unit"} -> tok.v
    [] tok.k = "inf" -> PosInf
    [] OTHER -> NaN
\* x || 100: 0 and NaN are falsy
OrHundred(x) == IF x = NaN \/ x = I(0) THEN I(100) ELSE x
\* parts[i] of the split view box (i counted from 0), undefined past its end
Part(parts, i) == IF i + 1 <= Len(parts) THEN JsNumber(parts[i + 1]) ELSE Null

parseSVGDimensions(src) ==
  IF ~src.svg THEN [width |-> I(100), height |-> I(100)]
  ELSE IF src.viewBox # <<>>
       THEN [width |-> Part(src.viewBox, 2), height |-> Part(src.viewBox, 3)]
  ELSE [width |-> OrHundred(ParseFloat(src.width)),
        height |-> OrHundred(ParseFloat(src.height))]

\* a sampler that cuts the quotient instead of rounding it
GridRowCount_floor(targetCols, logoAspect) ==
  MathMax(I(1), MathFloor(JsDiv(I(targetCols), logoAspect)))

\* rows = Math.max(1, Math.round(targetCols / logoAspect))
GridRowCount(targetCols, logoAspect) == RoundAtLeastOne(JsDiv(I(targetCols), logoAspect))

\* the sources drawn: view boxes "0 0 w h", one of three parts only, pairs of
\* width and height attributes, and a text without an svg element
SvgSource(vb, w, h) == [svg |-> TRUE, viewBox |-> vb, width |-> w, height |-> h]
Absent == Tok("absent", I(0))
ViewBoxToks == {Tok("num", I(4)), Tok("num", I(2)), Tok("num", I(8)), Tok("num", I(0)),
                Tok("num", I(-4)), Tok("junk", I(0)), Tok("empty", I(0))}
AttrToks == {Absent, Tok("num", I(4)), Tok("num", I(2)), Tok("num", I(0)),
             Tok("num", I(-4)), Tok("inf", I(0)), Tok("unit", I(4)), Tok("junk", I(0))}
SvgSources ==
  {SvgSource(<<Tok("num", I(0)), Tok("num", I(0)), w, h>>, Absent, Absent) :
     w \in ViewBoxToks, h \in ViewBoxToks}
  \cup {SvgSource(<<Tok("num", I(0)), Tok("num", I(0)), Tok("num", I(4))>>, Absent, Absent)}
  \cup {SvgSource(<<>>, w, h) : w \in AttrToks, h \in AttrToks}
  \cup {[svg |-> FALSE, viewBox |-> <<>>, width |-> Absent, height |-> Absent]}

\* what the browser painted: the bytes r, g, b of pixel (x, y) of rendering k
\* (rendering 1 leaves the white backdrop)
Byte(n) == 255 - (n % 256)
Pixel(k, x, y) ==
  <<Byte((k - 1) * 51 * (x + 2 * y + 1)), Byte((k - 1) * 85 * (x + 1)),
    Byte((k - 1) * 17 * (y + 1))>>
Brightness(px) == Q(px[1] + px[2] + px[3], 3 * 255)

\* getImageData(0, 0, cols, rows) throws unless both are integers >= 1 (NaN
\* and the infinities convert to 0)
IsPositiveInt(a) == IsNum(a) /\ a[2] = 1 /\ a[1] >= 1

SmpIdle == smp = [pc |-> "idle"]

\* sampleSVG up to its await (lines 9-28)
SampleSVG ==
  \E src \in SvgSources, targetCols \in 1..MaxTargetCols :
    LET dims == parseSVGDimensions(src)
    IN  /\ smp.pc # "loading"
        /\ smp' = [pc |-> "loading", src |-> src, targetCols |-> targetCols,
                   dims |-> dims, cols |-> I(targetCols),
                   rows |-> GridRowCount(targetCols, JsDiv(dims.width, dims.height))]
        /\ UNCHANGED <<rngVars, bilVars, fxVars, liveVars, job, appVars>>

\* img.onerror = reject: the promise rejects and nothing more runs
ImgOnerror ==
  /\ smp.pc = "loading"
  /\ smp' = [pc |-> "rejected", src |-> smp.src, targetCols |-> smp.targetCols,
             dims |-> smp.dims]
  /\ UNCHANGED <<rngVars, bilVars, fxVars, liveVars, job, appVars>>

\* the value sampleSVG returns (lines 45-62) from rendering k
SampleData(k, cols, rows, dims) ==
  [grid |-> [y \in 1..rows[1] |-> [x \in 1..cols[1] |-> Brightness(Pixel(k, x - 1, y - 1))]],
   cols |-> cols, rows |-> rows, aspect |-> Div(cols, rows),
   svgWidth |-> dims.width, svgHeight |-> dims.height]

\* img.onload = resolve: lines 29-62 run, and a throw of getImageData rejects
ImgOnload ==
  \E k \in 1..MaxRenderings :
    /\ smp.pc = "loading"
    /\ smp' = IF IsPositiveInt(smp.cols) /\ IsPositiveInt(smp.rows)
              THEN [pc |-> "resolved", src |-> smp.src, targetCols |-> smp.targetCols,
                    dims |-> smp.dims,
                    out |-> SampleData(k, smp.cols, smp.rows, smp.dims)]
              ELSE [pc |-> "rejected", src |-> smp.src, targetCols |-> smp.targetCols,
                    dims |-> smp.dims]
    /\ UNCHANGED <<rngVars, bilVars, fxVars, liveVars, job, appVars>>

(***************************************************************************)
(* animate/AnimatedCanvas.jsx and animate/useAnimationLoop.js              *)
(***************************************************************************)
\* the props of the current render: sampleData, params, outputWidth x fixedH
LiveProps == [data |-> fxData, params |-> fxParams, size |-> fxSize]


\* refs after mount: no state, no context, sizeRef = {w: 0, h: 0}; from is the
\* argument list of the init call that built animState
CanvasMounted ==
  [animState |-> NoValue, from |-> NoValue, ctx |-> FALSE, w |-> I(0),
   canvas |-> NoValue, closure |-> LiveProps, pending |-> FALSE, frame |-> NoValue,
   changes |-> 0]
LoopMounted(now, cb) ==
  [start |-> NoStamp, now |-> now, t |-> I(0), prevT |-> I(0), calls |-> 0,
   first |-> NoStamp, cb |-> cb, called |-> cb, raf |-> TRUE, mounted |-> TRUE]

\* refs after mount: raf tells whether the request held in rafRef is pending
\* in the browser (requested at line 28 and again by every tick), mounted
\* whether the component is in the tree

\* initEffect() of the render whose props are p (lines 36-62)
InitEffect(c, p) ==
  [c EXCEPT !.ctx = TRUE, !.canvas = p.size, !.from = p,
            !.animState = InitOf(fxEffect, p.data,
                                 Merge(AnimDefaultsOf(fxEffect), p.params), p.size).state]

\* a render with new props is committed; its effects have not run yet
Commit(d, p, size) ==
  /\ drv.mounted
  /\ ~cvs.pending
  /\ cvs.changes < MaxChanges
  /\ LiveProps # [data |-> d, params |-> p, size |-> size]
  /\ fxData' = d /\ fxParams' = p /\ fxSize' = size
  /\ cvs' = [cvs EXCEPT !.pending = TRUE, !.changes = @ + 1]
  /\ UNCHANGED <<fxEffect, fxSvg, fxAnim, fxFrame, fxRng, art, rngVars, bilVars, smp, job, drv, appVars>>

ParamsChange == \E p \in FxChoices(fxEffect) : Commit(fxData, p, fxSize)
GridChange == \E d \in FxGrids \ {fxData}, size \in FxSizes : Commit(d, fxParams, size)
DimsChange == \E size \in FxSizes : Commit(fxData, fxParams, size)

\* the passive effects of the committed render (lines 68-112): a new observer
\* closing over the new initEffect, and initEffect() if sizeRef.current.w > 0
FlushEffects ==
  /\ drv.mounted
  /\ cvs.pending
  /\ cvs' = IF Lt(I(0), cvs.w)
            THEN InitEffect([cvs EXCEPT !.pending = FALSE, !.closure = LiveProps], LiveProps)
            ELSE [cvs EXCEPT !.pending = FALSE, !.closure = LiveProps]
  /\ UNCHANGED <<fxVars, rngVars, bilVars, smp, job, drv, appVars>>

\* the width fitted into a cw x ch container (lines 78-85)
FittedWidth(cw, ch, aspect) ==
  MathFloor(IF Lt(ch, Div(cw, aspect)) THEN Mul(ch, aspect) ELSE cw)

\* container sizes the observer reports
ContainerSizes == {<<I(0), I(4)>>, <<I(4), I(4)>>, <<I(6), I(4)>>}

\* the ResizeObserver callback (lines 72-100): CSS size, and the first init
ContainerResize ==
  \E box \in ContainerSizes :
    /\ drv.mounted
    /\ cvs' = IF Lt(box[1], I(1)) \/ Lt(box[2], I(1)) THEN cvs
              ELSE IF cvs.animState = NoValue
              THEN InitEffect([cvs EXCEPT !.w = FittedWidth(box[1], box[2],
                                                            cvs.closure.data.aspect)],
                              cvs.closure)
              ELSE [cvs EXCEPT !.w = FittedWidth(box[1], box[2], cvs.closure.data.aspect)]
    /\ UNCHANGED <<fxVars, rngVars, bilVars, smp, job, drv, appVars>>

\* tick(timestamp) (useAnimationLoop.js 21-26) calling onFrame (lines 116-119);
\* the canvas then shows drawFrame(state, t), recorded with the props of the
\* render current at the call
Tick ==
  \E ts \in Stamps :
    LET start == IF drv.start = NoStamp THEN ts ELSE drv.start
        t == Q(ts - start, 1000)
    IN  /\ drv.raf
        /\ ts >= drv.now
        /\ drv.calls < MaxCalls
        /\ drv' = [drv EXCEPT !.start = start, !.now = ts, !.t = t, !.prevT = drv.t,
                                !.calls = @ + 1, !.called = drv.cb,
                                !.first = IF drv.calls = 0 THEN ts ELSE @]
        /\ cvs' = IF cvs.ctx /\ cvs.animState # NoValue
                  THEN [cvs EXCEPT !.frame = [state |-> cvs.animState, from |-> cvs.from,
                                              t |-> t, props |-> LiveProps,
                                              flushed |-> ~cvs.pending]]
                  ELSE cvs
        /\ UNCHANGED <<fxVars, rngVars, bilVars, smp, job, appVars>>

\* a hook that restarts its clock whenever the callback is replaced
SetCallback_restart ==
  /\ drv' = [drv EXCEPT !.cb = (@ + 1) % MaxCallbacks, !.start = NoStamp]
  /\ UNCHANGED <<fxVars, rngVars, bilVars, smp, job, cvs, appVars>>

\* the effect of lines 14-16 after a render with another onFrame
SetCallback ==
  /\ drv.mounted
  /\ drv' = [drv EXCEPT !.cb = (@ + 1) % MaxCallbacks]
  /\ UNCHANGED <<fxVars, rngVars, bilVars, smp, job, cvs, appVars>>

\* a cleanup that leaves the request of rafRef with the browser
Unmount_keepsRequest ==
  /\ drv.mounted /\ ~cvs.pending
  /\ drv' = [drv EXCEPT !.mounted = FALSE]
  /\ UNCHANGED <<fxVars, rngVars, bilVars, smp, job, cvs, appVars>>

\* the component leaves the tree (pending passive effects are flushed before
\* the commit): the cleanup of useAnimationLoop.js 30-32 cancels the request
\* in rafRef, the observer is disconnected; the refs keep their values
Unmount ==
  /\ drv.mounted /\ ~cvs.pending
  /\ drv' = [drv EXCEPT !.mounted = FALSE, !.raf = FALSE]
  /\ UNCHANGED <<fxVars, rngVars, bilVars, smp, job, cvs, appVars>>

\* the component is unmounted and mounted again: new refs, a new loop
Remount ==
  /\ cvs' = [CanvasMounted EXCEPT !.changes = cvs.changes]
  /\ drv' = LoopMounted(drv.now, drv.cb)
  /\ UNCHANGED <<fxVars, rngVars, bilVars, smp, job, appVars>>

LiveIdle == cvs = NoValue /\ drv = NoValue
\* the editor showing one panel of one of the given effects, just mounted
LiveInit(effects) ==
  /\ fxEffect \in effects
  /\ fxData = FxGrid(2) /\ fxSize = <<I(4), I(4)>>
  /\ fxParams = CHOOSE p \in FxChoices(fxEffect) : TRUE
  /\ fxSvg = NoValue /\ fxAnim = NoValue /\ fxFrame = NoValue /\ fxRng = 0
  /\ ArtIdle
  /\ cvs = CanvasMounted /\ drv = LoopMounted(0, 0)

(***************************************************************************)
(* Raster exports: components/EffectPairPanel.jsx, animate/AnimatedPanel.jsx *)
(***************************************************************************)
GifFps == 20
VideoFps == 60
ExportHeight == 1080
DefaultCanvasWidth == 300
DefaultCanvasHeight == 150

\* window.devicePixelRatio
PixelRatios == {I(1), I(2)}

\* Math.round(canvas.width / dpr), Math.round(canvas.height / dpr) of the live
\* canvas, whose buffer initEffect sized to Math.round(size * dpr) and which
\* is 300 x 150 before the first init
BaseSize(dpr) ==
  IF cvs.canvas = NoValue
  THEN <<MathRound(Div(I(DefaultCanvasWidth), dpr)), MathRound(Div(I(DefaultCanvasHeight), dpr))>>
  ELSE <<MathRound(Div(MathRound(Mul(cvs.canvas[1], dpr)), dpr)),
         MathRound(Div(MathRound(Mul(cvs.canvas[2], dpr)), dpr))>>

\* logicalW x 1080 of AnimatedPanel: scale = 1080 / baseH
ScaledSize(base) ==
  <<MathRound(Mul(base[1], Div(I(ExportHeight), base[2]))), I(ExportHeight)>>

\* nothing exported yet; marker is gifProgress, videoProgress or isRecording
JobIdle ==
  job = [kind |-> "none", pc |-> "idle", marker |-> NoValue, own |-> TRUE,
         surface |-> NoValue, from |-> NoValue, inits |-> 0,
         base |-> NoValue, frames |-> <<>>, startMs |-> 0, now |-> 0,
         downloaded |-> FALSE, partial |-> FALSE, reported |-> FALSE]

\* an export starts: its surface (in pixels), and its own init(sampleData,
\* {...getDefaultParams(), ...params}, w, h), kept as the arguments of the call
JobStarted(kind, pc, surface, dims, base) ==
  [kind |-> kind, pc |-> pc, marker |-> I(0), own |-> TRUE, surface |-> surface,
   base |-> base,
   from |-> [data |-> fxData, params |-> fxParams, size |-> dims],
   inits |-> 1, frames |-> <<>>, startMs |-> 0, now |-> 0, downloaded |-> FALSE,
   partial |-> FALSE, reported |-> FALSE]

\* the AnimationState an export passes to drawFrame
JobState ==
  InitOf(fxEffect, job.from.data, Merge(AnimDefaultsOf(fxEffect), job.from.params),
         job.from.size).state

\* one frame of an export: drawFrame(offCtx, animState, t), the backdrop under
\* it, the composite mode restored, the frame taken; rect is the backdrop
\* rectangle in pixels of the surface
ExportFrame(t, before, rect) ==
  [t |-> t, rect |-> rect,
   ops |-> before \o <<"drawFrame", "destination-over", "fillRect", "source-over",
                       "capture">>]

CanExport == job.marker = NoValue /\ job.pc \in {"idle", "done", "failed"}

\* EffectPairPanel exportGIF (508-563): every frame at once, then gif.render()
ExportGIF ==
  \E dpr \in PixelRatios :
    /\ CanExport
    /\ job' = [JobStarted("gif", "encoding", BaseSize(dpr), BaseSize(dpr), BaseSize(dpr)) EXCEPT
                 !.frames = [i \in 1..MaxGifFrames |->
                               ExportFrame(Q(i - 1, GifFps), <<>>, BaseSize(dpr))]]
    /\ UNCHANGED <<fxVars, rngVars, bilVars, smp, liveVars, appVars>>

\* AnimatedPanel exportGIF (159-214): a context scaled by 1080 / baseH, so a
\* rectangle of baseW x baseH covers baseW * scale x 1080 pixels
PanelExportGIF ==
  \E dpr \in PixelRatios :
    /\ CanExport
    /\ job' = [JobStarted("panelGif", "encoding", ScaledSize(BaseSize(dpr)), BaseSize(dpr),
                          BaseSize(dpr))
               EXCEPT !.frames =
                 [i \in 1..MaxGifFrames |->
                    ExportFrame(Q(i - 1, GifFps), <<>>,
                                <<Mul(BaseSize(dpr)[1], Div(I(ExportHeight), BaseSize(dpr)[2])),
                                  I(ExportHeight)>>)]]
    /\ UNCHANGED <<fxVars, rngVars, bilVars, smp, liveVars, appVars>>

\* AnimatedPanel exportVideo up to its first requestAnimationFrame (219-261,
\* 284): startMs = performance.now()
ExportVideo ==
  \E dpr \in PixelRatios, startMs \in Stamps :
    /\ CanExport
    /\ job' = [JobStarted("video", "recording", ScaledSize(BaseSize(dpr)),
                          ScaledSize(BaseSize(dpr)), BaseSize(dpr))
               EXCEPT !.startMs = startMs]
    /\ UNCHANGED <<fxVars, rngVars, bilVars, smp, liveVars, appVars>>

\* renderLoop(now) (264-282): the frame is drawn at the wall-clock time elapsed
\* since startMs; the stream takes the canvas as the callback left it
RenderLoop ==
  \E now \in Stamps :
    LET elapsed == Q(now - job.startMs, 1000)
    IN  /\ job.kind = "video" /\ job.pc = "recording"
        /\ now >= job.now
        /\ job' = IF Le(I(VideoSecs), elapsed)
                  THEN [job EXCEPT !.pc = "stopping", !.now = now]
                  ELSE [job EXCEPT !.now = now, !.marker = MathFloor(elapsed),
                                   !.frames = Append(@, ExportFrame(elapsed, <<"clearRect">>,
                                                                    job.base))]
        /\ Le(I(VideoSecs), elapsed) \/ Len(job.frames) < MaxJobFrames
        /\ UNCHANGED <<fxVars, rngVars, bilVars, smp, liveVars, appVars>>

\* EffectPairPanel exportWebM (187-213): a recorder on the stream of the live
\* preview canvas; no surface, no init and no drawFrame of its own
ExportWebM ==
  /\ CanExport
  /\ job' = [job EXCEPT !.kind = "webm", !.pc = "recording", !.marker = I(1),
                        !.own = FALSE, !.surface = NoValue, !.base = NoValue,
                        !.from = NoValue, !.inits = 0,
                        !.frames = <<>>, !.downloaded = FALSE, !.partial = FALSE,
                        !.reported = FALSE]
  /\ UNCHANGED <<fxVars, rngVars, bilVars, smp, liveVars, appVars>>

\* the stream of the live canvas delivers what the live loop last drew
StreamCapture ==
  /\ job.kind = "webm" /\ job.pc = "recording"
  /\ cvs.frame # NoValue
  /\ Len(job.frames) < MaxJobFrames
  /\ job' = [job EXCEPT !.frames = Append(@, [t |-> cvs.frame.t, rect |-> NoValue,
                                              ops |-> <<"capture">>])]
  /\ UNCHANGED <<fxVars, rngVars, bilVars, smp, liveVars, appVars>>

\* setTimeout(() => recorder.stop(), 10_000)
WebMTimeout ==
  /\ job.kind = "webm" /\ job.pc = "recording"
  /\ job' = [job EXCEPT !.pc = "stopping"]
  /\ UNCHANGED <<fxVars, rngVars, bilVars, smp, liveVars, appVars>>

\* gif.on('progress', ..)
GifProgress ==
  \E p \in {I(50), I(100)} :
    /\ job.kind \in {"gif", "panelGif"} /\ job.pc = "encoding"
    /\ job' = [job EXCEPT !.marker = p]
    /\ UNCHANGED <<fxVars, rngVars, bilVars, smp, liveVars, appVars>>

\* gif.on('finished', ..): the download, and the marker back to null
GifFinished ==
  /\ job.kind \in {"gif", "panelGif"} /\ job.pc = "encoding"
  /\ job' = [job EXCEPT !.pc = "done", !.downloaded = TRUE, !.marker = NoValue]
  /\ UNCHANGED <<fxVars, rngVars, bilVars, smp, liveVars, appVars>>

\* the encoder's worker fails (script not loaded, exception in the worker):
\* gif.js emits no event and the panel has no handler for one
GifWorkerError ==
  /\ job.kind \in {"gif", "panelGif"} /\ job.pc = "encoding"
  /\ job' = [job EXCEPT !.pc = "failed"]
  /\ UNCHANGED <<fxVars, rngVars, bilVars, smp, liveVars, appVars>>

\* the MediaRecorder fails: there is no onerror, the recorder goes inactive
RecorderError ==
  /\ job.kind \in {"video", "webm"} /\ job.pc = "recording"
  /\ job' = [job EXCEPT !.pc = "failed"]
  /\ UNCHANGED <<fxVars, rngVars, bilVars, smp, liveVars, appVars>>

\* recorder.onstop, after recorder.stop() or after an error: the chunks
\* gathered so far are downloaded and the marker is reset
RecorderStop ==
  /\ job.kind \in {"video", "webm"}
  /\ job.pc = "stopping" \/ (job.pc = "failed" /\ job.marker # NoValue)
  /\ job' = [job EXCEPT !.pc = IF job.pc = "failed" THEN "failed" ELSE "done",
                        !.downloaded = TRUE, !.partial = (job.pc = "failed"),
                        !.marker = NoValue]
  /\ UNCHANGED <<fxVars, rngVars, bilVars, smp, liveVars, appVars>>

HostIdle == SmpIdle /\ LiveIdle /\ JobIdle

(***************************************************************************)
(* The particle loop of generate and init, turn by turn                    *)
(***************************************************************************)
\* a grid with brightness 1 in every cell
WhiteGrid(cols, rows) ==
  [grid |-> [r \in 1..rows |-> [c \in 1..cols |-> I(1)]],
   cols |-> cols, rows |-> rows, aspect |-> Div(I(cols), I(rows))]

\* output sizes of the field: the model's, and OUTPUT_W x OUTPUT_W of the editor
FieldSizes == FxSizes \cup {<<I(1000), I(1000)>>, <<I(300), I(300)>>}

\* {} (every key from the defaults) or a small dot count
FieldChoices == {<<>>, [maxDots |-> I(MaxDots)]}

ScatterModes == {"generate", "init"}

\* { ...getDefaultParams(), ...params } of the static or the animated module
ScatterMerged(mode, params) ==
  Merge(IF mode = "generate" THEN ParticleScatterDefaults ELSE ParticleScatterAnimDefaults,
        params)

\* dotCount = Math.max(1, Math.round(maxDots))
DotCount(m) == AsInt(MathMax(I(1), MathRound(m.maxDots)))

\* the call up to its loop: merged params, rand = mulberry32(seed), the
\* weight table; generate returns at once when totalWeight === 0
ScatterEntered(mode, m, weights) ==
  [mode |-> mode, m |-> m, weights |-> weights, i |-> 0, s |-> ParticleRand(m.seed),
   out |-> <<>>,
   pc |-> IF mode = "generate" /\ weights[Len(weights)] = I(0) THEN "returned" ELSE "loop"]

ScatterCall ==
  \E mode \in ScatterModes :
    /\ run = NoValue
    /\ run' = ScatterEntered(mode, ScatterMerged(mode, fxParams),
                             CumulativeWeights(fxData, 0, I(0)))
    /\ UNCHANGED <<rngVars, bilVars, fxVars, hostVars, app>>

\* what one turn of the loop appends: a circle of generate or a particle of init
ScatterStep(r) ==
  [s |-> r.s, out |-> IF "prims" \in DOMAIN r THEN r.prims ELSE r.particles]

ScatterTurnOf(mode, m, weights, s) ==
  ScatterStep(IF mode = "generate"
              THEN ParticleStaticLoop(fxData, m, weights, fxSize[1], fxSize[2], 1, s)
              ELSE ParticleInitLoop(fxData, m, weights, fxSize[1], fxSize[2], 1, s))

\* for (let i = 0; i < dotCount; i++) { ... }: one turn
ScatterAdvance(step) ==
  run' = [run EXCEPT !.i = @ + 1, !.s = step.s, !.out = @ \o step.out]

ScatterTurn ==
  /\ run # NoValue
  /\ run.pc = "loop"
  /\ run.i < DotCount(run.m)
  /\ run.i < MaxTurns
  /\ ScatterAdvance(ScatterTurnOf(run.mode, run.m, run.weights, run.s))
  /\ UNCHANGED <<rngVars, bilVars, fxVars, hostVars, app>>

\* the loop ends and the function returns the circles or the state
ScatterReturn ==
  /\ run # NoValue
  /\ run.pc = "loop"
  /\ run.i = DotCount(run.m)
  /\ run' = [run EXCEPT !.pc = "returned"]
  /\ UNCHANGED <<rngVars, bilVars, fxVars, hostVars, app>>

FieldInit ==
  /\ fxData = WhiteGrid(FieldSide, FieldSide)
  /\ fxSize \in FieldSizes
  /\ fxEffect = "ParticleScatter"
  /\ fxParams \in FieldChoices
  /\ fxSvg = NoValue /\ fxAnim = NoValue /\ fxFrame = NoValue
  /\ fxRng = 0
  /\ ArtIdle
  /\ run = NoValue

\* the pick of one turn on its own: a cumulative table of n cells in gridCols
\* columns and a target below its total
PickWeights == {Q(2, 100), Q(102, 100)}

RECURSIVE Cumulated(_, _)
Cumulated(ws, total) ==
  IF ws = <<>> THEN <<>>
  ELSE <<Add(total, Head(ws))>> \o Cumulated(Tail(ws), Add(total, Head(ws)))

PickTables ==
  UNION {{Cumulated(ws, I(0)) : ws \in [1..n -> PickWeights]} : n \in 1..MaxTable}

\* targets in [0, totalWeight): 0, the entries below the total, and the
\* middle of every cell's interval
PickTargets(weights) ==
  {I(0)} \cup {weights[i] : i \in 1..(Len(weights) - 1)}
         \cup {Div(Add(IF i = 1 THEN I(0) ELSE weights[i - 1], weights[i]), I(2)) :
                 i \in 1..Len(weights)}

PickInit ==
  \E weights \in PickTables :
    \E target \in PickTargets(weights) :
      \E gridCols \in {c \in 1..Len(weights) : Len(weights) % c = 0} :
        run = [pc |-> "target", weights |-> weights, target |-> target,
               gridCols |-> gridCols]

\* the while loop, then cr = Math.floor(cellIndex / gridCols) and
\* cc = cellIndex % gridCols
PickCell ==
  /\ run # NoValue /\ run.pc = "target"
  /\ LET cellIndex == BinarySearch(run.weights, run.target, 0, Len(run.weights) - 1)
     IN  run' = [pc |-> "picked", weights |-> run.weights, target |-> run.target,
                 gridCols |-> run.gridCols, cellIndex |-> cellIndex,
                 cr |-> cellIndex \div run.gridCols, cc |-> cellIndex % run.gridCols]
  /\ UNCHANGED <<rngVars, bilVars, fxVars, hostVars, app>>

(***************************************************************************)
(* App.jsx: svgSource, sampleData and the re-sample effect                 *)
(***************************************************************************)
\* svgSource and sampleData hold a source number (the SVG text, the grid
\* sampled from that text) or NoSource for null
NoSource == 0
DefaultLogo == 1
Uploads == 2..MaxSources

\* sampleSVG resolves for a text the browser can render and rejects for one
\* it cannot (img.onerror); in the model the even texts are the broken files
Renderable(src) == src % 2 = 1

\* after mount: svgSource null, the fetch of /abc_logo.svg in flight, the
\* re-sample effect has run once with svgSource null.  deps is the svgSource
\* the effect last ran with, flights the sampleSVG promises not yet settled
\* (each with the cancelled flag of its closure), settled the outcome of the
\* sampling started by the latest effect run, stored the last call of
\* setSampleData(data) by a promise callback
AppMounted ==
  [svgSource |-> NoSource, sampleData |-> NoSource, fetch |-> "pending",
   deps |-> NoSource, flights |-> {}, started |-> 0, events |-> 0,
   settled |-> "none", stored |-> NoValue]

\* the effect's cleanup: cancelled = true in the closure of the previous run
Cancelled(flights) == {[f EXCEPT !.cancelled = TRUE] : f \in flights}

\* useEffect(() => { ... }, [svgSource]): cleanup of the previous run, then
\* setSampleData(null) for no source, or sampleSVG(svgSource, 300)
ResampleEffect(a) ==
  IF a.svgSource = NoSource
  THEN [a EXCEPT !.deps = NoSource, !.flights = Cancelled(@), !.sampleData = NoSource,
                 !.settled = "none"]
  ELSE [a EXCEPT !.deps = a.svgSource, !.started = @ + 1, !.settled = "none",
                 !.flights = Cancelled(@) \cup
                   {[src |-> a.svgSource, n |-> a.started + 1, cancelled |-> FALSE]}]

\* the passive effects of the last commit, if they have not run yet: React
\* runs them before it renders again
Flushed(a) == IF a.svgSource # a.deps THEN ResampleEffect(a) ELSE a

\* the effects of a commit run some time after it
FlushAppEffects ==
  /\ app # NoValue
  /\ app.svgSource # app.deps
  /\ app' = ResampleEffect(app)
  /\ UNCHANGED <<rngVars, bilVars, fxVars, hostVars, run>>

\* fetch('/abc_logo.svg').then(r => r.text()).then(text => setSvgSource(text))
LogoFetched ==
  /\ app # NoValue
  /\ app.fetch = "pending"
  /\ app' = [Flushed(app) EXCEPT !.fetch = "done", !.svgSource = DefaultLogo]
  /\ UNCHANGED <<rngVars, bilVars, fxVars, hostVars, run>>

\* .catch(console.error)
LogoFetchFailed ==
  /\ app # NoValue
  /\ app.fetch = "pending"
  /\ app' = [app EXCEPT !.fetch = "failed"]
  /\ UNCHANGED <<rngVars, bilVars, fxVars, hostVars, run>>

\* handleSvgLoaded(text, name): setSvgSource(text)
HandleSvgLoaded ==
  \E src \in Uploads :
    /\ app # NoValue
    /\ app.events < MaxUploads
    /\ app' = [Flushed(app) EXCEPT !.svgSource = src, !.events = @ + 1]
    /\ UNCHANGED <<rngVars, bilVars, fxVars, hostVars, run>>

\* handleClearLogo(): setSvgSource(null); setSampleData(null)
HandleClearLogo ==
  /\ app # NoValue
  /\ app.events < MaxUploads
  /\ app' = [Flushed(app) EXCEPT !.svgSource = NoSource, !.sampleData = NoSource,
                                 !.events = @ + 1]
  /\ UNCHANGED <<rngVars, bilVars, fxVars, hostVars, run>>

\* the latest effect run's sampling has ended
Settling(a, f, how) == IF f.n = a.started /\ f.src = a.deps THEN how ELSE a.settled

\* .then((data) => { if (!cancelled) setSampleData(data); }): the callback
\* tests the flag as it is when the promise resolves; the render its
\* setSampleData asks for first runs the effects still pending, and a
\* setSampleData(null) of theirs is applied after the callback's
SampleResolved ==
  \E f \in app.flights :
    /\ Renderable(f.src)
    /\ app' = IF f.cancelled
              THEN [app EXCEPT !.flights = @ \ {f}]
              ELSE Flushed([app EXCEPT !.flights = @ \ {f}, !.sampleData = f.src,
                                       !.settled = Settling(app, f, "resolved"),
                                       !.stored = [src |-> f.src,
                                                   current |-> app.svgSource]])
    /\ UNCHANGED <<rngVars, bilVars, fxVars, hostVars, run>>

\* sampleSVG rejects: the promise chain has no rejection handler
SampleRejected ==
  \E f \in app.flights :
    /\ ~Renderable(f.src)
    /\ app' = [app EXCEPT !.flights = @ \ {f},
                          !.settled = IF f.cancelled THEN @
                                      ELSE Settling(app, f, "rejected")]
    /\ UNCHANGED <<rngVars, bilVars, fxVars, hostVars, run>>

AppIdle == run = NoValue /\ app = NoValue

(***************************************************************************)
(* Specifications                                                          *)
(***************************************************************************)
NextRng == DrawA \/ DrawB \/ DrawInlined
InitRng == RngInit /\ BilIdle /\ FxIdle /\ HostIdle /\ AppIdle
SpecRng == InitRng /\ [][NextRng]_vars

NextBil == SamplePoint \/ SampleCell
InitBil == BilInit /\ RngIdle /\ FxIdle /\ HostIdle /\ AppIdle
SpecBil == InitBil /\ [][NextBil]_vars

NextFx == SetInputsStep \/ Generate \/ InitAnim \/ DrawFrameStep
InitFx == FxInit /\ RngIdle /\ BilIdle /\ HostIdle /\ AppIdle
SpecFx == InitFx /\ [][NextFx]_vars

NextExport == SetInputsStep \/ ExportHTML \/ ArtResize \/ ArtLoop
InitExport == FxInit /\ RngIdle /\ BilIdle /\ HostIdle /\ AppIdle
SpecExport == InitExport /\ [][NextExport]_vars

\* the exported page of a logo of aspect 1 or 5/4
HarnessGrids == {FxGrid(2), [FxGrid(2) EXCEPT !.aspect = Q(5, 4)]}
NextHarness == ExportHTML \/ ArtResize \/ ArtLoop
InitHarness ==
  /\ fxData \in HarnessGrids /\ fxSize = <<I(4), I(4)>>
  /\ fxEffect \in {"VerticalLines", "HorizontalLines", "LineHalftone"}
  /\ fxParams \in FxChoices(fxEffect)
  /\ fxSvg = NoValue /\ fxAnim = NoValue /\ fxFrame = NoValue /\ fxRng = 0
  /\ ArtIdle /\ RngIdle /\ BilIdle /\ HostIdle /\ AppIdle
SpecHarness == InitHarness /\ [][NextHarness]_vars

NextSampler == SampleSVG \/ ImgOnerror \/ ImgOnload
InitSampler == SmpIdle /\ LiveIdle /\ JobIdle /\ RngIdle /\ BilIdle /\ FxIdle /\ AppIdle
SpecSampler == InitSampler /\ [][NextSampler]_vars

NextLive ==
  \/ ParamsChange \/ GridChange \/ DimsChange \/ FlushEffects
  \/ ContainerResize \/ Tick \/ SetCallback \/ Remount
InitLive == LiveInit(Effects) /\ JobIdle /\ SmpIdle /\ RngIdle /\ BilIdle /\ AppIdle
SpecLive == InitLive /\ [][NextLive]_vars

NextLoop == Tick \/ SetCallback \/ Remount \/ ParamsChange \/ FlushEffects \/ ContainerResize
InitLoop == LiveInit({"VerticalLines"}) /\ JobIdle /\ SmpIdle /\ RngIdle /\ BilIdle /\ AppIdle
SpecLoop == InitLoop /\ [][NextLoop]_vars

NextMount ==
  \/ ParamsChange \/ FlushEffects \/ ContainerResize \/ Tick
  \/ Unmount \/ Remount
InitMount == LiveInit({"VerticalLines", "StarGlint"}) /\ JobIdle /\ SmpIdle /\ RngIdle /\ BilIdle /\ AppIdle
SpecMount == InitMount /\ [][NextMount]_vars

NextJobs ==
  \/ ExportGIF \/ PanelExportGIF \/ ExportVideo \/ ExportWebM
  \/ RenderLoop \/ StreamCapture \/ WebMTimeout
  \/ GifProgress \/ GifFinished \/ GifWorkerError \/ RecorderError \/ RecorderStop
  \/ ContainerResize \/ Tick
InitJobs == LiveInit({"VerticalLines"}) /\ JobIdle /\ SmpIdle /\ RngIdle /\ BilIdle /\ AppIdle
SpecJobs == InitJobs /\ [][NextJobs]_vars

NextField == ScatterCall \/ ScatterTurn \/ ScatterReturn
InitField == FieldInit /\ app = NoValue /\ RngIdle /\ BilIdle /\ HostIdle
SpecField == InitField /\ [][NextField]_vars

NextPick == PickCell
InitPick == PickInit /\ app = NoValue /\ RngIdle /\ BilIdle /\ FxIdle /\ HostIdle
SpecPick == InitPick /\ [][NextPick]_vars

NextFrames == InitAnim \/ DrawFrameStep
InitFrames == FxInit /\ RngIdle /\ BilIdle /\ HostIdle /\ AppIdle
SpecFrames == InitFrames /\ [][NextFrames]_vars

NextApp ==
  \/ LogoFetched \/ LogoFetchFailed \/ HandleSvgLoaded \/ HandleClearLogo
  \/ FlushAppEffects \/ SampleResolved \/ SampleRejected
InitApp == app = AppMounted /\ run = NoValue /\ RngIdle /\ BilIdle /\ FxIdle /\ HostIdle
SpecApp == InitApp /\ [][NextApp]_vars

(***************************************************************************)
(* The exported page binds what the effect text references                 *)
(***************************************************************************)
\* C1: every free identifier of the embedded getDefaultParams, init and
\* drawFrame is bound in the exported page, so running init and drawFrame
\* there never reaches an unbound name: setup never ends in a ReferenceError.
C1_ArtifactNeverUnbound == art.pc # "failed"

(***************************************************************************)
(* Static output against the animated frame at t = 0                       *)
(***************************************************************************)
LineEffects == {"VerticalLines", "HorizontalLines"}

\* two numbers equal up to the rounding of toFixed(1)
Close(a, b) == Le(Sub(a, b), Q(1, 10)) /\ Le(Sub(b, a), Q(1, 10))

\* position and size of a primitive of the static output
StaticShape(effect, out, p) ==
  CASE effect \in LineEffects -> <<p.x1, p.y1, p.x2, p.y2, out.strokeWidth>>
    [] effect = "LineHalftone" -> <<p.x1, p.y1, p.x2, p.y2, p.strokeWidth>>
    [] effect = "EllipseGrid" -> <<p.cx, p.cy, p.rx, p.ry>>
    [] effect = "ParticleScatter" -> <<p.cx, p.cy, p.r>>
    [] effect = "StarGlint" -> <<p.d[1], p.d[6], p.d[5], p.d[3]>>

\* position and size of a primitive of a frame
FrameShape(effect, p) ==
  CASE effect \in LineEffects -> <<p.x1, p.y1, p.x2, p.y2, p.lineWidth>>
    [] effect = "LineHalftone" -> <<p.x1, p.y1, p.x2, p.y2, p.strokeWidth>>
    [] effect = "EllipseGrid" -> <<p.cx, p.cy, p.rx, p.ry>>
    [] effect = "ParticleScatter" -> <<p.cx, p.cy, p.r>>
    [] effect = "StarGlint" -> <<p.cx, p.cy, Add(p.cx, p.scale), Add(p.cx, p.cpDist)>>

CloseShapes(a, b) == \A k \in DOMAIN a : Close(a[k], b[k])

\* the same cells (particles: the same number, in order) are drawn, with
\* the same position and size
SamePrimitives(effect, out, draws) ==
  IF effect = "ParticleScatter"
  THEN /\ Len(out.prims) = Len(draws.prims)
       /\ \A i \in 1..Len(out.prims) :
            CloseShapes(StaticShape(effect, out, out.prims[i]),
                        FrameShape(effect, draws.prims[i]))
  ELSE /\ {out.prims[i].cell : i \in 1..Len(out.prims)}
            = {draws.prims[j].cell : j \in 1..Len(draws.prims)}
       /\ \A i \in 1..Len(out.prims), j \in 1..Len(draws.prims) :
            out.prims[i].cell = draws.prims[j].cell =>
              CloseShapes(StaticShape(effect, out, out.prims[i]),
                          FrameShape(effect, draws.prims[j]))

\* C2: for the same grid, parameters and dimensions, generate and
\* drawFrame(init(...), 0) draw the same cells or particles, each with the
\* same position and size up to rounding.
C2_StaticMatchesFrameZero ==
  (fxSvg # NoValue /\ fxFrame # NoValue /\ fxSvg.params = fxParams /\ fxFrame.t = I(0))
    => SamePrimitives(fxEffect, fxSvg.out, fxFrame.draws)

(***************************************************************************)
(* Star Glint: the density cut                                             *)
(***************************************************************************)
\* the lattice cells of the star field for the given parameters
StarField(defaults, params) ==
  StarCells(fxData,
            StarLattice(Merge(defaults, params).density, fxSize[1], fxSize[2]),
            Merge(defaults, params).jitter)

\* the cells of a field whose sampled darkness is at least 0.3
DarkCells(cells) ==
  {cells[i].cell : i \in {j \in 1..Len(cells) : Le(Q(3, 10), cells[j].darkness)}}

\* C3: a Star Glint lattice cell with darkness below 0.3 is not in the render
\* set: init stores exactly the cells with darkness >= 0.3 (count counts them
\* and every stored sd is >= 0.3), no frame draws another cell, and generate
\* emits no path for a cell below 0.3.
C3_StarGlintDensityCut ==
  fxEffect = "StarGlint" =>
    /\ fxAnim # NoValue =>
         /\ fxAnim.count = Cardinality(DarkCells(StarField(StarGlintAnimDefaults, fxParams)))
         /\ fxAnim.count = Len(fxAnim.stars)
         /\ {fxAnim.stars[i].cell : i \in 1..fxAnim.count}
              = DarkCells(StarField(StarGlintAnimDefaults, fxParams))
         /\ \A i \in 1..fxAnim.count : Le(Q(3, 10), fxAnim.stars[i].sd)
    /\ fxFrame # NoValue =>
         \A j \in 1..Len(fxFrame.draws.prims) :
           fxFrame.draws.prims[j].cell \in DarkCells(StarField(StarGlintAnimDefaults, fxParams))
    /\ fxSvg # NoValue =>
         \A j \in 1..Len(fxSvg.out.prims) :
           fxSvg.out.prims[j].cell \in DarkCells(StarField(StarGlintDefaults, fxSvg.params))

\* a star field with cells on both sides of the cut, stored, drawn and emitted
C3_Witness ==
  /\ fxEffect = "StarGlint" /\ fxAnim # NoValue /\ fxFrame # NoValue /\ fxSvg # NoValue
  /\ fxSvg.params = fxParams
  /\ fxAnim.count > 0
  /\ fxAnim.count < Len(StarField(StarGlintAnimDefaults, fxParams))
  /\ Len(fxFrame.draws.prims) > 0
  /\ Len(fxSvg.out.prims) > 0

(***************************************************************************)
(* Particle Scatter: what is emitted                                       *)
(***************************************************************************)
InRect(x, y, st) ==
  Le(I(0), x) /\ Le(x, st.w) /\ Le(I(0), y) /\ Le(y, st.h)

\* C4 as stated: every particle emitted by generate and by init has darkness
\* >= 0.3 at its source point.
C4_Original ==
  fxEffect = "ParticleScatter" =>
    /\ fxSvg # NoValue =>
         \A i \in 1..Len(fxSvg.out.prims) : Le(Q(3, 10), fxSvg.out.prims[i].darkness)
    /\ fxAnim # NoValue =>
         \A i \in 1..fxAnim.count : Le(Q(3, 10), fxAnim.particles[i].darkness)

\* C4: every particle emitted by generate or stored by init has its source
\* point inside the output rectangle and a radius of at least 0.15 (init:
\* the base radius, generate: the pulsed radius); darkness is no criterion.
C4_ParticleEmissionRule ==
  fxEffect = "ParticleScatter" =>
    /\ fxSvg # NoValue =>
         \A i \in 1..Len(fxSvg.out.prims) :
           /\ InRect(fxSvg.out.prims[i].cx, fxSvg.out.prims[i].cy,
                     [w |-> fxSvg.out.width, h |-> fxSvg.out.height])
           /\ Le(Q(15, 100), fxSvg.out.prims[i].r)
    /\ fxAnim # NoValue =>
         \A i \in 1..fxAnim.count :
           /\ InRect(fxAnim.particles[i].px, fxAnim.particles[i].py,
                     [w |-> fxAnim.outputWidth, h |-> fxAnim.outputHeight])
           /\ Le(Q(15, 100), fxAnim.particles[i].pr)

\* both modules emit a particle whose source point is lighter than the cut
C4_Witness ==
  /\ fxEffect = "ParticleScatter" /\ fxSvg # NoValue /\ fxAnim # NoValue
  /\ \E i \in 1..Len(fxSvg.out.prims) : Lt(fxSvg.out.prims[i].darkness, Q(3, 10))
  /\ \E i \in 1..fxAnim.count : Lt(fxAnim.particles[i].darkness, Q(3, 10))

(***************************************************************************)
(* Reversed min/max pairs                                                  *)
(***************************************************************************)
\* params with the values of the keys a and b exchanged
SwapPair(defaults, params, a, b) ==
  [k \in DOMAIN params \cup {a, b} |->
     IF k = a THEN Merge(defaults, params)[b]
     ELSE IF k = b THEN Merge(defaults, params)[a] ELSE params[k]]

StaticDefaultsOf(effect) ==
  CASE effect = "ParticleScatter" -> ParticleScatterDefaults
    [] effect = "EllipseGrid" -> EllipseGridDefaults
    [] effect = "HorizontalLines" -> HorizontalLinesDefaults
    [] effect = "VerticalLines" -> VerticalLinesDefaults
    [] effect = "StarGlint" -> StarGlintDefaults
    [] effect = "LineHalftone" -> LineHalftoneDefaults

\* the recorded static output and frame are what the calls with a and b
\* exchanged produce
SwapInvariant(a, b) ==
  /\ fxSvg # NoValue =>
       GenerateOf(fxEffect, fxData,
                  SwapPair(StaticDefaultsOf(fxEffect), fxSvg.params, a, b), fxSize).svg
         = fxSvg.out
  /\ fxFrame # NoValue =>
       DrawFrameOf(fxEffect,
                   InitOf(fxEffect, fxData,
                          SwapPair(AnimDefaultsOf(fxEffect), fxParams, a, b), fxSize).state,
                   fxFrame.t).prims
         = fxFrame.draws.prims

\* C5: Vertical Lines and Horizontal Lines, static and animated, give the
\* same output with minStroke and maxStroke exchanged and with minLength and
\* maxLength exchanged.
C5_LinePairsSymmetric ==
  fxEffect \in LineEffects =>
    SwapInvariant("minStroke", "maxStroke") /\ SwapInvariant("minLength", "maxLength")

\* C6: Particle Scatter's generate, and init followed by drawFrame, give the
\* same particles with minRadius and maxRadius exchanged.
C6_ParticleRadiiSymmetric ==
  fxEffect = "ParticleScatter" => SwapInvariant("minRadius", "maxRadius")

\* particles were emitted and drawn from a pair submitted in reverse order
C6_Witness ==
  /\ fxEffect = "ParticleScatter" /\ fxSvg # NoValue /\ fxFrame # NoValue
  /\ fxSvg.params = fxParams
  /\ "minRadius" \in DOMAIN fxParams
  /\ Lt(fxParams.maxRadius, fxParams.minRadius)
  /\ Len(fxSvg.out.prims) > 0
  /\ Len(fxFrame.draws.prims) > 0

RecipeState(S) == AddBits(S, Bits(Golden))
RecipeValue(S1) ==
  LET t1 == MulBits(XorBits(S1, ShrBits(S1, 15)), OrBits(S1, <<0, 1>>))
      t2 == XorBits(t1, AddBits(t1, MulBits(XorBits(t1, ShrBits(t1, 7)), OrBits(t1, <<0, 61>>))))
  IN  XorBits(t2, ShrBits(t2, 14))

RECURSIVE RecipeNth(_, _)
RecipeNth(S, n) == IF n = 1 THEN RecipeValue(RecipeState(S))
                   ELSE RecipeNth(RecipeState(S), n - 1)

\* a numerator of a value in [0, 1): an unsigned 32-bit word
InUnit(p) == p[1] \in 0..(W16 - 1) /\ p[2] \in 0..(W16 - 1)

\* the first values of mulberry32(42), from an independent implementation
GoldenVector42 == <<<<39393, 61308>>, <<29379, 11146>>, <<55867, 12992>>>>

\* C8: every value a generator has returned is the recipe's value of the same
\* rank for the seed, lies in [0, 1), and is the same for the two generators
\* of math.js and for the inlined copy, however their calls interleave; the
\* sequence of seed 42 starts with the golden vector.
C8_Mulberry32Recipe ==
  \A g \in GenNames : \A i \in 1..Len(seq[g]) :
    /\ seq[g][i] = RecipeNth(rngSeed, i)
    /\ InUnit(seq[g][i])
    /\ (rngSeed = <<0, 42>> /\ i <= Len(GoldenVector42) => seq[g][i] = GoldenVector42[i])

C8_Witness ==
  /\ rngSeed = <<65535, 65535>>
  /\ Len(seq["a"]) = MaxDraws /\ Len(seq["b"]) = 1 /\ Len(seq["inlined"]) = 2

(***************************************************************************)
(* C9, C10  sampleBilinear                                                 *)
(***************************************************************************)
CellValue(grid, r, c) == grid[r + 1][c + 1]

IsCorner(call) == call.kind = "point" /\ call.u \in {I(0), I(1)} /\ call.v \in {I(0), I(1)}
CornerValue(grid, call) ==
  CellValue(grid, IF call.v = I(0) THEN 0 ELSE GridRows(grid) - 1,
                  IF call.u = I(0) THEN 0 ELSE GridCols(grid) - 1)

\* C9 as stated: for cols >= 1 and rows >= 1, sampling at (c/(cols-1),
\* r/(rows-1)) returns grid[r][c], and the four corners return the corner cells.
C9_Original ==
  /\ bilCall.kind = "cell" => bilOut = CellValue(bilGrid, bilCall.r, bilCall.c)
  /\ IsCorner(bilCall) => bilOut = CornerValue(bilGrid, bilCall)

\* C9 amended: the lattice part needs cols >= 2 and rows >= 2 (on an axis of
\* one cell c/(cols-1) is 0/0); the corner part holds for cols, rows >= 1.
C9_LatticeReproduced ==
  /\ (bilCall.kind = "cell" /\ GridCols(bilGrid) >= 2 /\ GridRows(bilGrid) >= 2)
       => bilOut = CellValue(bilGrid, bilCall.r, bilCall.c)
  /\ IsCorner(bilCall) => bilOut = CornerValue(bilGrid, bilCall)

C9_Witness ==
  /\ bilCall.kind = "cell" /\ GridCols(bilGrid) = 3 /\ GridRows(bilGrid) = 2
  /\ bilCall.c = 1 /\ bilCall.r = 1
  /\ bilOut = CellValue(bilGrid, 1, 1)
  /\ bilOut # CellValue(bilGrid, 0, 0)

InRange(i, lo, hi) == IsNum(i) /\ i[2] = 1 /\ lo <= i[1] /\ i[1] <= hi

FourCells(grid, k) ==
  {GridRead(grid, k.y0, k.x0), GridRead(grid, k.y0, k.x1),
   GridRead(grid, k.y1, k.x0), GridRead(grid, k.y1, k.x1)}

SourceAspect == JsDiv(smp.dims.width, smp.dims.height)
PositiveAspect == IsNum(SourceAspect) /\ SourceAspect[1] > 0
ExactRows == Div(I(smp.targetCols), SourceAspect)
\* n = round(x), halves upwards
Nearest(n, x) == Le(Sub(n, Q(1, 2)), x) /\ Lt(x, Add(n, Q(1, 2)))
\* out.grid has out.rows rows of out.cols cells
GridComplete(out) ==
  /\ Len(out.grid) = out.rows[1]
  /\ \A y \in 1..Len(out.grid) : Len(out.grid[y]) = out.cols[1]
\* rows is within one row of C / A
WithinOneRow(out) == Le(Sub(ExactRows, I(1)), out.rows) /\ Le(out.rows, Add(ExactRows, I(1)))

\* C11 as stated: for a source of positive aspect A and targetColumns C the
\* returned grid has cols = C and rows = round(C/A), holds exactly rows rows
\* of cols cells, and its rows are within one row of C/A.
C11_Original ==
  (smp.pc = "resolved" /\ PositiveAspect) =>
    /\ smp.out.cols = I(smp.targetCols)
    /\ Nearest(smp.out.rows, ExactRows)
    /\ GridComplete(smp.out)
    /\ WithinOneRow(smp.out)

\* C11 amended: rows = max(1, round(C/A)); a quotient below one half gives
\* one row, not none. The rest is as stated.
C11_SamplerAspect ==
  (smp.pc = "resolved" /\ PositiveAspect) =>
    /\ smp.out.cols = I(smp.targetCols)
    /\ \/ Nearest(smp.out.rows, ExactRows)
       \/ smp.out.rows = I(1) /\ Lt(ExactRows, Q(1, 2))
    /\ GridComplete(smp.out)
    /\ WithinOneRow(smp.out)

\* a grid of 3 columns sampled from a source of aspect 2: C/A = 3/2, 2 rows
C11_Witness ==
  /\ smp.pc = "resolved" /\ PositiveAspect
  /\ ExactRows = Q(3, 2) /\ smp.out.rows = I(2) /\ Len(smp.out.grid) = 2

\* a positive finite number
PositiveFinite(a) == IsNum(a) /\ a[1] > 0

\* C12: sampleSVG ends rejected with no grid, or resolved with a complete grid
\* whose cols and rows are positive integers and whose cells lie in [0,1]; and
\* the dimensions parsed by parseSVGDimensions, which the grid carries as
\* svgWidth and svgHeight, are positive and finite.
C12_SamplerOutcomes ==
  /\ smp.pc = "rejected" => "out" \notin DOMAIN smp
  /\ smp.pc = "resolved" =>
       /\ IsPositiveInt(smp.out.cols) /\ IsPositiveInt(smp.out.rows)
       /\ GridComplete(smp.out)
       /\ \A y \in 1..Len(smp.out.grid) : \A x \in 1..Len(smp.out.grid[y]) :
            Le(I(0), smp.out.grid[y][x]) /\ Le(smp.out.grid[y][x], I(1))
       /\ PositiveFinite(smp.out.svgWidth) /\ PositiveFinite(smp.out.svgHeight)

(***************************************************************************)
(* Parameters are merged over the defaults                                 *)
(***************************************************************************)
\* the caller's object with every key it omits set to the module's default
WithDefaults(defaults, params) ==
  [k \in DOMAIN defaults \cup DOMAIN params |->
     IF k \in DOMAIN params THEN params[k] ELSE defaults[k]]

\* C13: generate and init return for a parameter object that omits keys what
\* they return for the object with those keys set to getDefaultParams()
\* (seed, rows and minLength included), and the params kept in the
\* AnimationState hold every default key, an omitted one with its default.
C13_TotalMerge ==
  /\ fxSvg # NoValue =>
       GenerateOf(fxEffect, fxData, WithDefaults(StaticDefaultsOf(fxEffect), fxSvg.params),
                  fxSize).svg = fxSvg.out
  /\ fxAnim # NoValue =>
       /\ InitOf(fxEffect, fxData, WithDefaults(AnimDefaultsOf(fxEffect), fxParams),
                 fxSize).state = fxAnim
       /\ \A k \in DOMAIN AnimDefaultsOf(fxEffect) :
            /\ k \in DOMAIN fxAnim.params
            /\ k \notin DOMAIN fxParams => fxAnim.params[k] = AnimDefaultsOf(fxEffect)[k]

\* static and animated vertical lines from an object holding the colour only
\* (rows and minLength omitted), with a frame drawn
C13_Witness ==
  /\ fxEffect = "VerticalLines" /\ fxParams = [color |-> "#000000"]
  /\ fxSvg # NoValue /\ fxSvg.params = fxParams /\ "rows" \in DOMAIN VerticalLinesDefaults
  /\ fxAnim # NoValue /\ fxFrame # NoValue

(***************************************************************************)
(* The live canvas                                                         *)
(***************************************************************************)
\* C14: every frame of the live canvas is drawn from an AnimationState that
\* init built from the grid, parameters and output dimensions of the render
\* committed at the time of the call.
C14_DrawsCurrentState ==
  cvs.frame # NoValue => cvs.frame.from = cvs.frame.props

Position(ops, name) ==
  IF \E i \in 1..Len(ops) : ops[i] = name
  THEN CHOOSE i \in 1..Len(ops) : ops[i] = name
  ELSE 0

\* drawFrame, then the backdrop under it, then the normal mode, then capture
BackdropOrder(ops) ==
  /\ 0 < Position(ops, "drawFrame")
  /\ Position(ops, "drawFrame") < Position(ops, "destination-over")
  /\ Position(ops, "destination-over") < Position(ops, "fillRect")
  /\ Position(ops, "fillRect") < Position(ops, "source-over")
  /\ Position(ops, "source-over") < Position(ops, "capture")

\* C16: in every GIF and video export every frame is drawn, then backed by the
\* backdrop composited beneath it, then captured in the normal composite mode,
\* and the backdrop rectangle covers the whole export surface.
C16_BackdropUnderEveryFrame ==
  job.kind \in {"gif", "panelGif", "video"} =>
    \A i \in 1..Len(job.frames) :
      /\ BackdropOrder(job.frames[i].ops)
      /\ Le(job.surface[1], job.frames[i].rect[1])
      /\ Le(job.surface[2], job.frames[i].rect[2])

\* the frame rate an export declares
FpsOf(kind) == IF kind \in {"gif", "panelGif"} THEN GifFps ELSE VideoFps

\* C17: every raster export calls init exactly once and draws its frames at
\* t = 0, 1/fps, 2/fps, ...
C17_FixedCadence ==
  job.kind # "none" =>
    /\ job.inits = 1
    /\ \A i \in 1..Len(job.frames) : job.frames[i].t = Q(i - 1, FpsOf(job.kind))

\* C18: every export draws on a surface of its own with an AnimationState it
\* initialised itself, and takes no frame from the live preview's canvas.
C18_ExportOwnsSurfaceAndState ==
  job.kind # "none" =>
    /\ job.own /\ job.surface # NoValue
    /\ job.inits = 1 /\ job.from # NoValue

\* C19: a failed GIF or video export is reported, downloads nothing and
\* leaves the panel's progress marker at null.
C19_FailureHandled ==
  (job.kind \in {"gif", "panelGif", "video"} /\ job.pc = "failed") =>
    /\ job.reported
    /\ ~job.downloaded
    /\ job.marker = NoValue

(***************************************************************************)
(* The exported page against the live preview                              *)
(***************************************************************************)
\* the animState of the running page is init(SAMPLE_DATA, defaults merged
\* with the exported params, w, h) for the page's own w x h
ArtStateFromExport ==
  art.pc = "running" =>
    art.animState = InitOf(art.effect, fxData,
                           Merge(AnimDefaultsOf(art.effect), art.params), art.size).state

\* the time of the last frame is the time elapsed since the first frame
ArtElapsedSinceFirst ==
  art.pc = "running" /\ art.frames > 0 => art.t = Q(art.now - art.first, 1000)

\* C20: the exported page draws the same (state, t) pairs as the live
\* preview: its state is init(grid, defaults merged with the exported params,
\* w, h) and the t of a frame is the time in seconds elapsed since the page's
\* first frame, so that the first frame after load is drawn at t = 0.
C20_ArtifactLiveEquivalence == ArtStateFromExport /\ ArtElapsedSinceFirst

(***************************************************************************)
(* Particle Scatter on an all-white field                                  *)
(***************************************************************************)
\* a call with default parameters on the white field
DefaultRun == run # NoValue /\ fxParams = <<>>

\* the selection weight of every cell is that of the first
EqualWeights(weights) ==
  \A k \in 2..Len(weights) : Sub(weights[k], weights[k - 1]) = weights[1]

\* the centre of an emitted circle or stored particle
CentreX(p) == IF "cx" \in DOMAIN p THEN p.cx ELSE p.px
CentreY(p) == IF "cy" \in DOMAIN p THEN p.cy ELSE p.py

InsideOutput(p) ==
  /\ Le(I(0), CentreX(p)) /\ Le(CentreX(p), fxSize[1])
  /\ Le(I(0), CentreY(p)) /\ Le(CentreY(p), fxSize[2])

\* a turn of the loop only appends to what was emitted before
OnlyAppends ==
  run # NoValue /\ run' # NoValue =>
    /\ Len(run'.out) >= Len(run.out)
    /\ SubSeq(run'.out, 1, Len(run.out)) = run.out

FieldFacts ==
  DefaultRun =>
    /\ Lt(I(0), run.weights[Len(run.weights)])
    /\ EqualWeights(run.weights)
    /\ run.pc = "loop"
    /\ \A j \in 1..Len(run.out) : InsideOutput(run.out[j])
    /\ run.i = MaxTurns => run.out # <<>>

\* C21: on a 10 x 10 grid of brightness 1 with default parameters, generate
\* and init both emit at least one particle (within the turns followed, and
\* a later turn removes none); the total weight is positive, every cell has
\* the same selection weight, and every accepted particle lies inside
\* [0, w] x [0, h].
C21_EmptyFieldPopulated == []FieldFacts /\ [][OnlyAppends]_vars

\* both calls have emitted on the 10 x 10 white field with the defaults
C21_Witness ==
  /\ DefaultRun /\ run.i = MaxTurns /\ Len(run.out) >= 1
  /\ fxData.cols = FieldSide /\ fxData.rows = FieldSide
  /\ Len(run.weights) = FieldSide * FieldSide

(***************************************************************************)
(* Derived sizes against the skip thresholds                               *)
(***************************************************************************)
\* the threshold under which the module skips a primitive: h < 0.5 and
\* h < 0.3 (vertical lines), w < 0.3 (horizontal lines), rx < 0.3 && ry < 0.3
\* and ry < 0.5 (ellipse grid), r < 0.15 (particles), currentScale < 0.5
\* (stars); Line Halftone tests no size, its segments are held against the
\* smallest of the thresholds
SkipEpsilon(effect, animated) ==
  CASE effect = "VerticalLines" -> IF animated THEN Q(3, 10) ELSE Q(1, 2)
    [] effect = "HorizontalLines" -> Q(3, 10)
    [] effect = "EllipseGrid" -> IF animated THEN Q(1, 2) ELSE Q(3, 10)
    [] effect = "ParticleScatter" -> Q(15, 100)
    [] effect = "StarGlint" -> Q(1, 2)
    [] effect = "LineHalftone" -> Q(15, 100)

\* segment length, rx and ry, radius, glyph scale of a primitive from its shape
SizesOf(effect, shape) ==
  CASE effect \in LineEffects \cup {"LineHalftone"} ->
         {Add(Sub(shape[3], shape[1]), Sub(shape[4], shape[2]))}
    [] effect = "EllipseGrid" -> {shape[3], shape[4]}
    [] effect = "ParticleScatter" -> {shape[3]}
    [] effect = "StarGlint" -> {Sub(shape[3], shape[1])}

StaticSizesKept ==
  fxSvg # NoValue =>
    \A i \in 1..Len(fxSvg.out.prims) :
      \A size \in SizesOf(fxEffect, StaticShape(fxEffect, fxSvg.out, fxSvg.out.prims[i])) :
        Le(SkipEpsilon(fxEffect, FALSE), size)

FrameSizesKept ==
  fxFrame # NoValue =>
    \A i \in 1..Len(fxFrame.draws.prims) :
      \A size \in SizesOf(fxEffect, FrameShape(fxEffect, fxFrame.draws.prims[i])) :
        Le(SkipEpsilon(fxEffect, TRUE), size)

\* C22: every primitive emitted by generate or drawn by drawFrame has each
\* of its derived sizes (segment length, ellipse rx and ry, particle radius,
\* glyph scale) at or above the effect's skip threshold.
C22_NoDegeneratePrimitive == StaticSizesKept /\ FrameSizesKept

(***************************************************************************)
(* The grid the application holds against the uploaded source              *)
(***************************************************************************)
\* the sampling started for the current source has ended
CurrentSettled ==
  /\ app.svgSource # NoSource
  /\ app.deps = app.svgSource
  /\ app.settled # "none"

\* C23: once the sampling of the uploaded source has finished, successfully
\* or not, the application holds (renders and exports from) no grid of an
\* earlier source; when the sampling failed it holds no grid at all.
C23_GridLifetime ==
  CurrentSettled =>
    /\ app.sampleData \in {NoSource, app.svgSource}
    /\ app.settled = "rejected" => app.sampleData = NoSource

(***************************************************************************)
(* Uploads, clears and sampling completions in any order                   *)
(***************************************************************************)
\* the last result stored was started for the source current at that time
StoredForCurrent == app.stored # NoValue => app.stored.src = app.stored.current

\* without a source the application holds no grid
EmptyAfterClear == app.svgSource = NoSource => app.sampleData = NoSource

\* C27: under any interleaving of uploads, clears and completions a sampling
\* result is stored only if the source it was started for is still the
\* current source, and after a clear the grid stays empty until a newly
\* uploaded source has been sampled.
C27_StaleResultDropped == StoredForCurrent /\ EmptyAfterClear

(***************************************************************************)
(* drawFrame as a function of the state and the time                       *)
(***************************************************************************)
\* the calls of the last frame are those of drawFrame(state, t) whatever was
\* drawn before, and the clear covers outputWidth x outputHeight
FrameOfStateAndTime ==
  fxFrame # NoValue =>
    /\ fxFrame.draws = DrawFrameOf(fxEffect, fxAnim, fxFrame.t)
    /\ fxFrame.draws.clear = fxSize

\* a step that draws leaves the AnimationState as it was
DrawKeepsState == fxFrame' # NoValue /\ fxFrame' # fxFrame => fxAnim' = fxAnim

StaticSchemaKeys(effect) ==
  CASE effect = "ParticleScatter" -> {"maxDots", "maxRadius", "minRadius", "scatter", "speed"}
    [] effect = "EllipseGrid" -> {"cols", "maxRy", "eccentricity", "speed", "pulseFrac"}
    [] effect = "HorizontalLines" -> {"minStroke", "maxStroke", "maxLength", "speed", "waveFreq"}
    [] effect = "VerticalLines" -> {"minStroke", "maxStroke", "maxLength", "speed", "waveFreq"}
    [] effect = "StarGlint" -> {"density", "scale", "sharpness", "jitter", "speed"}
    [] effect = "LineHalftone" -> {"density", "contrast", "pulse", "speed"}

\* the keys of getParamSchema() of the animated module
AnimSchemaKeys(effect) ==
  CASE effect = "ParticleScatter" -> {"maxDots", "maxRadius", "minRadius", "scatter", "speed"}
    [] effect = "EllipseGrid" -> {"cols", "maxRy", "eccentricity", "pulseFrac", "speed"}
    [] effect = "HorizontalLines" -> {"minStroke", "maxStroke", "maxLength", "waveFreq", "speed"}
    [] effect = "VerticalLines" -> {"minStroke", "maxStroke", "maxLength", "waveFreq", "speed"}
    [] effect = "StarGlint" -> {"density", "scale", "sharpness", "jitter", "speed"}
    [] effect = "LineHalftone" -> {"density", "contrast", "pulse", "speed"}

\* both modules of the effect expose the same keys
SameKeys ==
  /\ DOMAIN StaticDefaultsOf(fxEffect) = DOMAIN AnimDefaultsOf(fxEffect)
  /\ StaticSchemaKeys(fxEffect) = AnimSchemaKeys(fxEffect)

\* the keys whose defaults differ between the two modules of an effect
DefaultsApart(effect) ==
  {k \in DOMAIN StaticDefaultsOf(effect) \cap DOMAIN AnimDefaultsOf(effect) :
     StaticDefaultsOf(effect)[k] # AnimDefaultsOf(effect)[k]}

\* generate and init, given the same parameter object, work with the same
\* value for every key
SameResolved ==
  fxSvg # NoValue /\ fxAnim # NoValue /\ fxSvg.params = fxParams =>
    Merge(StaticDefaultsOf(fxEffect), fxSvg.params) = fxAnim.params

\* what holds instead: the modules agree except on speed and, for
\* horizontal lines, maxStroke
DefaultsApartKnown ==
  /\ DefaultsApart(fxEffect) \subseteq {"speed", "maxStroke"}
  /\ fxEffect \in {"VerticalLines", "StarGlint", "LineHalftone"} => DefaultsApart(fxEffect) = {}
  /\ "maxStroke" \in DefaultsApart(fxEffect) => fxEffect = "HorizontalLines"

\* C25: for every effect the static and the animated module expose the same
\* parameter keys with the same default values, both schemas list the same
\* keys, and generate and init called with the same partial parameter set
\* resolve every missing key to the same value.
C25_SharedDefaults ==
  /\ SameKeys
  /\ fxSvg # NoValue /\ fxAnim # NoValue => DefaultsApart(fxEffect) = {}
  /\ SameResolved

(***************************************************************************)
(* Stroke widths against the cell                                          *)
(***************************************************************************)
\* the row cell height of Line Halftone, outputHeight / floor(density)
HalftoneCell(params) == Div(fxSize[2], MathFloor(params.density))

\* every Line Halftone stroke, static and animated, is at most 1.8 cells wide
HalftoneCapped ==
  fxEffect = "LineHalftone" =>
    /\ fxSvg # NoValue =>
         \A i \in 1..Len(fxSvg.out.prims) :
           Le(fxSvg.out.prims[i].strokeWidth,
              Mul(HalftoneCell(Merge(LineHalftoneDefaults, fxSvg.params)), Q(18, 10)))
    /\ fxFrame # NoValue /\ fxAnim # NoValue =>
         \A i \in 1..Len(fxFrame.draws.prims) :
           Le(fxFrame.draws.prims[i].strokeWidth,
              Mul(HalftoneCell(fxAnim.params), Q(18, 10)))

\* the cell size across the lines: the column width for vertical lines, the
\* row height for horizontal ones
CellAcross(effect, sd, rows) ==
  IF effect = "VerticalLines" THEN Div(fxSize[1], I(sd.cols)) ELSE Div(fxSize[2], I(rows))

\* every stroke of an animated frame of the line effects is at most 1.35
\* cells wide
AnimLinesCapped ==
  fxEffect \in LineEffects /\ fxFrame # NoValue /\ fxAnim # NoValue =>
    \A i \in 1..Len(fxFrame.draws.prims) :
      Le(fxFrame.draws.prims[i].lineWidth,
         Mul(CellAcross(fxEffect, fxData,
                        IF fxEffect = "HorizontalLines" THEN fxAnim.rows ELSE fxData.rows),
             Q(135, 100)))

\* the midpoint of the stroke range after the cap of 1.35 cells
CappedMidpoint(minStroke, maxStroke, cell) ==
  LET hi == MathMin(MathMax(minStroke, maxStroke), Mul(cell, Q(135, 100)))
      lo == MathMin(MathMin(minStroke, maxStroke), hi)
  IN  Div(Add(lo, hi), I(2))

\* the static line variants draw with the midpoint of the capped range
StaticMidpointCapped ==
  fxEffect \in LineEffects /\ fxSvg # NoValue =>
    LET m == Merge(StaticDefaultsOf(fxEffect), fxSvg.params)
    IN  Close(fxSvg.out.strokeWidth,
              CappedMidpoint(m.minStroke, m.maxStroke,
                             CellAcross(fxEffect, fxData, fxData.rows)))

\* the same for horizontal lines alone
HorizontalMidpointCapped == fxEffect = "HorizontalLines" => StaticMidpointCapped

\* Line Halftone widths at rows thinner than 0.28 px, where the cap
\* min(contrast, 1.8 cellH) falls below the minimum width 0.5
HalftoneThinRows ==
  \A cellH \in {Q(1, 4), I(1)} : \A darkness \in {Q(3, 10), I(1)} :
    Le(HalftoneWidth(darkness, I(15), cellH, I(0)), Mul(cellH, Q(18, 10)))

\* C26: every Line Halftone stroke, static and animated, is at most 1.8
\* times the row cell height; every stroke of animated Vertical Lines and
\* Horizontal Lines is at most 1.35 times the cell size across the line
\* direction; and the static line variants use the midpoint of the same
\* capped range.
C26_StrokeCaps == HalftoneCapped /\ AnimLinesCapped /\ StaticMidpointCapped

(***************************************************************************)
(* The live canvas before its first init and after unmount                 *)
(***************************************************************************)
\* the state of a drawn frame is what init of the panel's module returned
\* for the arguments recorded with it
FrameStateFromInit ==
  cvs.frame # NoValue =>
    /\ cvs.frame.state # NoValue
    /\ cvs.frame.state = InitOf(fxEffect, cvs.frame.from.data,
                                Merge(AnimDefaultsOf(fxEffect), cvs.frame.from.params),
                                cvs.frame.from.size).state

\* without a state or a context a step draws nothing
NoStateNoFrame ==
  cvs.animState = NoValue \/ ~cvs.ctx => cvs'.frame = cvs.frame

\* once unmounted, no callback runs until the component is mounted again
NoCallAfterUnmount ==
  ~drv.mounted => (drv'.calls = drv.calls /\ cvs'.frame = cvs.frame) \/ drv'.mounted

\* C29: in the live canvas drawFrame is never called while the
\* AnimationState or the context is absent (frames before the first
\* measurement and init are no-ops), it is only called with a state the same
\* module's init produced, and after unmount the pending animation-frame
\* request is cancelled, so no further call occurs.
C29_LiveCanvasGuards ==
  /\ [](FrameStateFromInit /\ (~drv.mounted => ~drv.raf))
  /\ [][NoStateNoFrame /\ NoCallAfterUnmount]_vars

\* unmounted after a frame callback that came before the first init and one
\* that drew
C29_Witness ==
  /\ ~drv.mounted /\ drv.calls = 2
  /\ cvs.frame # NoValue /\ Lt(I(0), cvs.frame.t)

(***************************************************************************)
(* The exported page: one loop, state at the fitted size                   *)
(***************************************************************************)
\* at most one animation-frame request is pending
OneLoop == ArtPending <= 1

\* the animState of the running page is init at the size fitted into the
\* viewport of the last resize
ArtStateAtFittedSize ==
  art.pc = "running" =>
    art.animState =
      InitOf(art.effect, fxData, Merge(AnimDefaultsOf(art.effect), art.params),
             ArtFitted(art.view[1], art.view[2], fxData.aspect)).state

\* w x h lies inside the viewport and w / h is the aspect up to flooring:
\* w <= W < w + 1 and h <= H < h + 1 for some W / H = aspect
ArtFitsViewport ==
  art.pc \in {"running", "failed"} =>
    LET w == art.size[1]
        h == art.size[2]
    IN  /\ Le(w, art.view[1]) /\ Le(h, art.view[2])
        /\ Lt(w, Mul(fxData.aspect, Add(h, I(1))))
        /\ Lt(Mul(fxData.aspect, h), Add(w, I(1)))

\* C30: in the exported page, after any sequence of window resizes and
\* frames at most one animation-frame callback is pending, the
\* AnimationState is the one init builds from the embedded grid and merged
\* params at the size of the last resize, and that size fits the viewport
\* with the artwork's aspect up to flooring.
C30_HarnessInvariants == OneLoop /\ ArtStateAtFittedSize /\ ArtFitsViewport

\* a page of aspect 5/4 resized a second time, to a viewport it fills in
\* height (w = floor(6.25)), after a frame drawn at the earlier size
C30_Witness ==
  /\ art.pc = "running" /\ art.raf = 1 /\ art.frames = 0 /\ art.now > 0
  /\ fxData.aspect = Q(5, 4) /\ art.view = <<I(7), I(5)>> /\ art.size = <<I(6), I(5)>>

(***************************************************************************)
(* The weighted cell pick                                                  *)
(***************************************************************************)
\* the first index, from the left, whose entry is not below the target
RECURSIVE LinearScan(_, _, _)
LinearScan(weights, target, i) ==
  IF i = Len(weights) - 1 \/ ~Lt(weights[i + 1], target) THEN i
  ELSE LinearScan(weights, target, i + 1)

\* C28: for a strictly increasing cumulative table of n >= 1 entries and a
\* target in [0, totalWeight) the binary search ends with the smallest index
\* i, within 0..n-1, whose entry is at least the target, which is the index a
\* left-to-right scan finds, and the row and column decoded from it are a
\* cell of the grid.
C28_WeightedPick ==
  run # NoValue /\ run.pc = "picked" =>
    LET n == Len(run.weights)
        i == run.cellIndex
    IN  /\ i \in 0..(n - 1)
        /\ Le(run.target, run.weights[i + 1])
        /\ \A j \in 0..(i - 1) : Lt(run.weights[j + 1], run.target)
        /\ i = LinearScan(run.weights, run.target, 0)
        /\ run.cr \in 0..((n \div run.gridCols) - 1)
        /\ run.cc \in 0..(run.gridCols - 1)
        /\ run.cr * run.gridCols + run.cc = i

\* a target equal to the third of four entries, picked in the second row of
\* a grid two cells wide
C28_Witness ==
  /\ run # NoValue /\ run.pc = "picked"
  /\ Len(run.weights) = 4 /\ run.gridCols = 2
  /\ run.target = run.weights[3] /\ run.cellIndex = 2 /\ run.cr = 1 /\ run.cc = 0

====
